---- MODULE Spec2Model ----
(***************************************************************************)
(* Sandbox platform control plane: the store (environments, versions,      *)
(* sandboxes, sandbox_logs), the container runtime, and the services that  *)
(* act on them (EnvironmentService, SandboxService, the TTL sweeper).      *)
(* Every await of the TypeScript source is one step of the model: the      *)
(* statement it waits for together with the synchronous code that follows  *)
(* it up to the next await.                                                *)
(***************************************************************************)
EXTENDS Integers, Sequences, FiniteSets, TLC

(***************************************************************************)
(* Program constants                                                       *)
(***************************************************************************)
MAX_SANDBOXES_PER_USER == 10

(***************************************************************************)
(* Bounds of the model                                                     *)
(***************************************************************************)
MaxCalls == 2          \* service calls begun during a run
MaxTime == 2           \* clock values 0..MaxTime
MaxEnvCalls == 2       \* calls of the environment API during a run
MaxEmit == 1           \* log events a container emits

Users == {"A", "B"}
Callers == {1, 2}
NULL == 0
NoName == <<"none", 0>>   \* data.name undefined
Nil == "null"             \* a string that is null or undefined
NoRow == [none |-> TRUE]  \* a query that returned no row

SandboxIds == 1..(MAX_SANDBOXES_PER_USER + MaxCalls + 1)

VARIABLES
  now,            \* the clock (NOW(), Date.now())
  environments,   \* table environments: id -> row
  versions,       \* table environment_versions: id -> row
  envLock,        \* row locks of SELECT ... FOR UPDATE: environment id -> holder
  sandboxes,      \* table sandboxes: id -> row
  logs,           \* table sandbox_logs: sandbox id -> sequence of rows
  containers,     \* the runtime: container id -> [state, ports, emitted, out]
  prov,           \* provisioner tasks: sandbox id -> [pc, ...]
  collectors,     \* live log collector / tail tasks
  calls,          \* service calls in flight or finished: caller -> record
  sweeper,        \* the TTL sweeper task
  hist            \* history: what has happened so far

vars == <<now, environments, versions, envLock, sandboxes, logs, containers,
          prov, collectors, calls, sweeper, hist>>

(***************************************************************************)
(* Store and runtime helpers                                               *)
(***************************************************************************)
Min(S) == CHOOSE x \in S : \A y \in S : x <= y

RemoveKey(f, k) == [x \in DOMAIN f \ {k} |-> f[x]]

RemoveAt(q, i) == [j \in 1..(Len(q) - 1) |-> IF j < i THEN q[j] ELSE q[j + 1]]

\* a row with its id, as a query returns it
WithId(row, id) == [id |-> id] @@ row

\* statuses the quota query and the sweeper's query leave out
TerminalStatuses == {"stopped", "expired", "error"}

\* SELECT COUNT(*) FROM sandboxes WHERE user_id = $1 AND status NOT IN (...)
CountActive(u) ==
  Cardinality({s \in DOMAIN sandboxes :
                 /\ sandboxes[s].user_id = u
                 /\ sandboxes[s].status \notin TerminalStatuses})

\* SELECT id FROM sandboxes WHERE user_id = $1 AND environment_id = $2 AND name = $3
RowsWithKey(u, e, n) ==
  {s \in DOMAIN sandboxes :
     /\ sandboxes[s].user_id = u
     /\ sandboxes[s].environment_id = e
     /\ sandboxes[s].name = n}

\* variant of the row lookup that leaves the user out of the WHERE clause
OwnedRowAnyUser(u, s) == s \in DOMAIN sandboxes

\* SELECT * FROM sandboxes WHERE id = $1 AND user_id = $2
OwnedRow(u, s) == s \in DOMAIN sandboxes /\ sandboxes[s].user_id = u

\* the response built from a row (SandboxService.toResponse)
SandboxResponse(s) ==
  [kind |-> "ok", id |-> s, status |-> sandboxes[s].status,
   phase |-> sandboxes[s].phase]

\* getSandbox(userId, sandboxId): the response, or null
GetSandbox(u, s) == IF OwnedRow(u, s) THEN SandboxResponse(s) ELSE [kind |-> "null"]

Idle == [op |-> "idle", pc |-> "idle"]

\* a service call in flight: its arguments, its locals and its position
NewCall(op, pc, u, sb, e, ver, name, ttl) ==
  [op |-> op, pc |-> pc, user |-> u, sb |-> sb, env |-> e, ver |-> ver,
   name |-> name, ttl |-> ttl, ports |-> <<>>, override |-> FALSE,
   cid |-> NULL, vid |-> NULL, exp |-> NULL, count |-> 0, rid |-> NULL,
   snap |-> <<>>, info |-> Nil, key |-> Nil, value |-> Nil, image |-> Nil,
   erow |-> NoRow, vrow |-> NoRow, vers |-> <<>>, used |-> <<>>, data |-> NoRow, audited |-> FALSE, sent |-> <<>>,
   hkey |-> IF name = NoName THEN {} ELSE RowsWithKey(u, e, name),
   ins |-> FALSE, spawned |-> FALSE, seq |-> hist.ncalls + 1,
   over |-> {calls[d].seq : d \in {x \in Callers : calls[x].pc \notin {"idle", "done"}}},
   res |-> [kind |-> "none"]]

\* a call returns (or throws) res: its arguments and its result are kept
Finish(c, res) ==
  calls' = [calls EXCEPT ![c] =
              [calls[c] EXCEPT !.pc = "done", !.res = res, !.ports = <<>>,
                               !.override = FALSE, !.cid = NULL, !.vid = NULL,
                               !.exp = NULL, !.rid = NULL,
                               !.ttl = NULL, !.snap = <<>>, !.info = Nil,
                               !.value = Nil, !.erow = NoRow, !.vrow = NoRow,
                               !.vers = <<>>]]

Throw(c, kind) == Finish(c, [kind |-> kind])

Goto(c, pc) == calls' = [calls EXCEPT ![c].pc = pc]

\* a new call is taken by the first caller that has none in flight
CanBegin(c, max) ==
  /\ calls[c].pc \in {"idle", "done"}
  /\ \A d \in Callers : d < c => calls[d].pc \notin {"idle", "done"}
  /\ hist.ncalls < max

Begun == [hist EXCEPT !.ncalls = @ + 1]

(***************************************************************************)
(* logger.ts: redactSecrets. A text is a sequence of characters.           *)
(***************************************************************************)
Lower == <<"a", "b", "c", "d", "e", "f", "g", "h", "i", "j", "k", "l", "m",
           "n", "o", "p", "q", "r", "s", "t", "u", "v", "w", "x", "y", "z">>
Upper == <<"A", "B", "C", "D", "E", "F", "G", "H", "I", "J", "K", "L", "M",
           "N", "O", "P", "Q", "R", "S", "T", "U", "V", "W", "X", "Y", "Z">>
Digits == {"0", "1", "2", "3", "4", "5", "6", "7", "8", "9"}

\* the i flag: letters are compared without their case
ToUpper(ch) ==
  IF \E i \in 1..26 : Lower[i] = ch
  THEN Upper[CHOOSE i \in 1..26 : Lower[i] = ch] ELSE ch

IsAlnum(ch) == ch \in Digits \/ \E i \in 1..26 : ch \in {Lower[i], Upper[i]}

\* the classes \w, \S and [a-zA-Z0-9]
InClass(ch, cls) ==
  CASE cls = "w" -> IsAlnum(ch) \/ ch = "_"
    [] cls = "S" -> ch \notin {" ", "\t", "\n", "\r"}
    [] cls = "a" -> IsAlnum(ch)

Lit(chars) == [kind |-> "lit", chars |-> chars]
Plus(cls) == [kind |-> "plus", cls |-> cls]

\* const patterns = [ /SECRET_\w+=\S+/gi, /API_KEY=\S+/gi, ... ]
patterns ==
  << <<Lit(<<"S", "E", "C", "R", "E", "T", "_">>), Plus("w"), Lit(<<"=">>), Plus("S")>>,
     <<Lit(<<"A", "P", "I", "_", "K", "E", "Y", "=">>), Plus("S")>>,
     <<Lit(<<"P", "A", "S", "S", "W", "O", "R", "D", "=">>), Plus("S")>>,
     <<Lit(<<"T", "O", "K", "E", "N", "=">>), Plus("S")>>,
     <<Lit(<<"P", "R", "I", "V", "A", "T", "E", "_", "K", "E", "Y", "=">>), Plus("S")>>,
     <<Lit(<<"s", "k", "_", "l", "i", "v", "e", "_">>), Plus("a")>>,
     <<Lit(<<"s", "k", "_", "t", "e", "s", "t", "_">>), Plus("a")>> >>

REDACTED == <<"[", "R", "E", "D", "A", "C", "T", "E", "D", "]">>

\* the end of the longest run of the class that starts at i (i itself: no run)
RECURSIVE RunEnd(_, _, _)
RunEnd(text, i, cls) ==
  IF i <= Len(text) /\ InClass(text[i], cls) THEN RunEnd(text, i + 1, cls) ELSE i

\* the position after a match of the pattern's elements j.. at position i, or 0.
\* A + takes its longest run: in every pattern it is last or followed by "=",
\* which its class excludes, so a shorter run never matches where the longest fails
RECURSIVE MatchFrom(_, _, _, _)
MatchFrom(text, i, pat, j) ==
  IF j > Len(pat) THEN i
  ELSE IF pat[j].kind = "lit"
  THEN LET chars == pat[j].chars IN
         IF /\ i + Len(chars) - 1 <= Len(text)
            /\ \A k \in 1..Len(chars) : ToUpper(text[i + k - 1]) = ToUpper(chars[k])
         THEN MatchFrom(text, i + Len(chars), pat, j + 1)
         ELSE 0
  ELSE LET e == RunEnd(text, i, pat[j].cls) IN
         IF e = i THEN 0 ELSE MatchFrom(text, e, pat, j + 1)

\* text.replace(pattern, "[REDACTED]") with the g flag, from position i on
RECURSIVE ReplaceFrom(_, _, _)
ReplaceFrom(text, i, pat) ==
  IF i > Len(text) THEN <<>>
  ELSE LET e == MatchFrom(text, i, pat, 1) IN
         IF e # 0 THEN REDACTED \o ReplaceFrom(text, e, pat)
         ELSE <<text[i]>> \o ReplaceFrom(text, i + 1, pat)

\* for (const pattern of patterns) redacted = redacted.replace(...), patterns n..
RECURSIVE RedactWith(_, _)
RedactWith(text, n) ==
  IF n > Len(patterns) THEN text
  ELSE RedactWith(ReplaceFrom(text, 1, patterns[n]), n + 1)

\* what containers write in the model: a plain line, a line with a token, and a
\* line with a key inside a word
RawTexts ==
  { <<"o", "k">>,
    <<"t", "o", "k", "e", "n", "=", "a", "b", " ", "c">>,
    <<"x", "s", "k", "_", "l", "i", "v", "e", "_", "a", "1", "!">> }

\* redactSecrets of those lines, computed once
RedactedLines == [text \in RawTexts |-> RedactWith(text, 1)]

redactSecrets(text) ==
  IF text \in RawTexts THEN RedactedLines[text] ELSE RedactWith(text, 1)

(***************************************************************************)
(* The container runtime (docker.ts)                                       *)
(***************************************************************************)
\* host ports bound by running containers
BusyPorts ==
  UNION {{containers[k].ports[i].host : i \in 1..Len(containers[k].ports)} :
           k \in {x \in DOMAIN containers : containers[x].state = "running"}}

\* isPortAvailable(port): nothing listens on the host port
isPortAvailable(port) == port \notin BusyPorts

maxAttempts == 100
MaxPort == 65535

\* findAvailablePort(basePort): the first free port of basePort .. basePort + 99,
\* NULL for the thrown "Could not find available port"
findAvailablePort(basePort) ==
  LET free == {q \in basePort..(basePort + maxAttempts - 1) :
                 q <= MaxPort /\ isPortAvailable(q)}
  IN IF free = {} THEN NULL ELSE Min(free)

(***************************************************************************)
(* SandboxService.createSandbox and replicateSandbox                       *)
(***************************************************************************)
IsCreate(c) == calls[c].op \in {"create", "replicate"}

\* createSandbox(userId, {environmentId, environmentVersionId, name, ttlSeconds})
BeginCreate(c, u, e, ver, name, ttl, max) ==
  /\ CanBegin(c, max)
  /\ calls' = [calls EXCEPT ![c] = NewCall("create", "quota", u, NULL, e, ver, name, ttl)]
  /\ hist' = Begun
  /\ UNCHANGED <<now, environments, versions, envLock, sandboxes, logs,
                 containers, prov, collectors, sweeper>>

\* variant of the quota check that lets the user reach one sandbox too many
QuotaReachedOffByOne(count) == count > MAX_SANDBOXES_PER_USER

\* the quota check: count >= MAX_SANDBOXES_PER_USER throws QuotaExceededError
QuotaReached(count) == count >= MAX_SANDBOXES_PER_USER

CreateQuota(c) ==
  /\ IsCreate(c) /\ calls[c].pc = "quota"
  /\ LET count == CountActive(calls[c].user) IN
       IF QuotaReached(count)
       THEN calls' = [calls EXCEPT ![c].pc = "done", ![c].count = count,
                                   ![c].res = [kind |-> "QuotaExceeded"]]
       ELSE calls' = [calls EXCEPT ![c].pc = "lookup", ![c].count = count]
  /\ UNCHANGED <<now, environments, versions, envLock, sandboxes, logs,
                 containers, prov, collectors, sweeper, hist>>

\* environmentService.getEnvironment(userId, data.environmentId), scoped to the
\* user: NULL without the row
ResolveEnv(u, e) ==
  IF e \in DOMAIN environments /\ environments[e].user_id = u THEN e ELSE NULL

\* environmentService.getVersion(versionId): SELECT ... WHERE id = $1
ResolveVersion(v) == IF v \in DOMAIN versions THEN v ELSE NULL

\* this.provisionSandbox(sandboxId, userId, version, overrides): the task starts;
\* h is the history so far
SpawnProvisioner(id, vid, h) ==
  /\ prov' = (id :> [pc |-> "load", vid |-> vid, ports |-> <<>>, healthy |-> FALSE])
              @@ prov
  /\ hist' = [h EXCEPT !.provStarted[id] = @ + 1]

\* variant of the idempotent return that provisions the existing sandbox again
ReuseExistingRespawn(c, id, name) ==
  /\ calls' = [calls EXCEPT ![c].pc = "get", ![c].rid = id, ![c].name = name,
                            ![c].spawned = TRUE]
  /\ SpawnProvisioner(id, sandboxes[id].environment_version_id, hist)

\* if (existing) return this.getSandbox(userId, existing.id)
ReuseExisting(c, id, name) ==
  /\ calls' = [calls EXCEPT ![c].pc = "get", ![c].rid = id, ![c].name = name]
  /\ UNCHANGED <<prov, hist>>

\* the environment and the version are resolved, the name is derived, and the
\* idempotency check is made: SELECT id ... WHERE user_id, environment_id, name.
\* The three reads are one step: no step of the model writes an environment or a
\* version while a sandbox call runs.
CreateLookup(c) ==
  /\ IsCreate(c) /\ calls[c].pc = "lookup"
  /\ LET u == calls[c].user
         e == calls[c].env
         versionId == IF calls[c].ver # NULL THEN calls[c].ver
                      ELSE environments[e].current_version_id
         name == IF calls[c].name = NoName THEN <<"gen", hist.nextName>>
                 ELSE calls[c].name
         existing == RowsWithKey(u, e, name)
     IN IF ResolveEnv(u, e) = NULL THEN Throw(c, "NotFound") /\ UNCHANGED <<prov, hist>>
        ELSE IF versionId = NULL THEN Throw(c, "Error") /\ UNCHANGED <<prov, hist>>
        ELSE IF ResolveVersion(versionId) = NULL
        THEN Throw(c, "NotFound") /\ UNCHANGED <<prov, hist>>
        ELSE IF existing # {} THEN ReuseExisting(c, Min(existing), name)
        ELSE /\ calls' = [calls EXCEPT
                  ![c].pc = "insert", ![c].vid = versionId, ![c].name = name,
                  ![c].ports = IF calls[c].override THEN calls[c].ports
                               ELSE versions[versionId].ports,
                  ![c].exp = IF calls[c].ttl = NULL THEN NULL
                             ELSE now + calls[c].ttl]
             /\ hist' = IF calls[c].name = NoName
                        THEN [hist EXCEPT !.nextName = @ + 1] ELSE hist
             /\ UNCHANGED prov
  /\ UNCHANGED <<now, environments, versions, envLock, sandboxes, logs,
                 containers, collectors, sweeper>>

\* INSERT INTO sandboxes ... 'pending', 'creating'; then the provisioner is started
CreateInsert(c) ==
  /\ IsCreate(c) /\ calls[c].pc = "insert"
  /\ LET id == hist.nextId
         u == calls[c].user
         e == calls[c].env
     IN IF RowsWithKey(u, e, calls[c].name) # {}
        THEN \* UNIQUE(user_id, environment_id, name): error 23505, CONFLICT
             /\ Throw(c, "Conflict")
             /\ UNCHANGED <<sandboxes, prov, hist>>
        ELSE IF e \notin DOMAIN environments \/ calls[c].vid \notin DOMAIN versions
        THEN \* REFERENCES environments(id), environment_versions(id)
             /\ Throw(c, "Error")
             /\ UNCHANGED <<sandboxes, prov, hist>>
        ELSE /\ sandboxes' = (id :>
                  [user_id |-> u, environment_id |-> e,
                   environment_version_id |-> calls[c].vid, name |-> calls[c].name,
                   container_id |-> NULL, status |-> "pending", phase |-> "creating",
                   ports |-> calls[c].ports, expires_at |-> calls[c].exp]) @@ sandboxes
             /\ SpawnProvisioner(id, calls[c].vid,
                                 [hist EXCEPT !.nextId = @ + 1, !.inserted = @ \cup {id}])
             /\ calls' = [calls EXCEPT ![c].pc = "get", ![c].rid = id,
                                       ![c].ins = TRUE, ![c].spawned = TRUE]
  /\ UNCHANGED <<now, environments, versions, envLock, logs, containers,
                 collectors, sweeper>>

\* return this.getSandbox(userId, id)
CreateGet(c) ==
  /\ IsCreate(c) /\ calls[c].pc = "get"
  /\ Finish(c, GetSandbox(calls[c].user, calls[c].rid))
  /\ UNCHANGED <<now, environments, versions, envLock, sandboxes, logs,
                 containers, prov, collectors, sweeper, hist>>

\* POST /sandboxes: createSandbox has returned a sandbox and the handler has not
\* yet written its audit entry
AuditDue(c) ==
  /\ calls[c].op = "create" /\ calls[c].pc = "done"
  /\ calls[c].res.kind = "ok" /\ ~calls[c].audited

\* POST /sandboxes: await auditService.logSandboxCreated(userId, sandbox.id, ...),
\* an INSERT INTO audit_logs; then the 201 answer
PostSandboxesAudit(c) ==
  /\ AuditDue(c)
  /\ hist' = [hist EXCEPT !.audit =
                Append(@, [user_id |-> calls[c].user, action |-> "sandbox.created",
                           resource_type |-> "sandbox",
                           resource_id |-> calls[c].res.id])]
  /\ calls' = [calls EXCEPT ![c].audited = TRUE]
  /\ UNCHANGED <<now, environments, versions, envLock, sandboxes, logs,
                 containers, prov, collectors, sweeper>>

\* replicateSandbox(userId, sandboxId, data)
BeginReplicate(c, u, sb, name, max) ==
  /\ CanBegin(c, max)
  /\ calls' = [calls EXCEPT ![c] =
                 NewCall("replicate", "load", u, sb, NULL, NULL, name, NULL)]
  /\ hist' = Begun
  /\ UNCHANGED <<now, environments, versions, envLock, sandboxes, logs,
                 containers, prov, collectors, sweeper>>

\* the original is loaded, scoped to the user; the replica's name is derived
ReplicateLoad(c) ==
  /\ calls[c].op = "replicate" /\ calls[c].pc = "load"
  /\ LET sb == calls[c].sb IN
       IF ~OwnedRow(calls[c].user, sb) THEN Throw(c, "NotFound") /\ UNCHANGED hist
       ELSE /\ calls' = [calls EXCEPT
                 ![c].pc = IF sandboxes[sb].ports # <<>> THEN "probe" ELSE "quota",
                 ![c].env = sandboxes[sb].environment_id,
                 ![c].ver = sandboxes[sb].environment_version_id,
                 ![c].ports = sandboxes[sb].ports,
                 ![c].name = IF calls[c].name = NoName
                             THEN <<"replica", hist.nextName>> ELSE calls[c].name,
                 ![c].hkey = IF calls[c].name = NoName THEN {}
                             ELSE RowsWithKey(calls[c].user,
                                              sandboxes[sb].environment_id, calls[c].name)]
            /\ hist' = IF calls[c].name = NoName
                       THEN [hist EXCEPT !.nextName = @ + 1] ELSE hist
  /\ UNCHANGED <<now, environments, versions, envLock, sandboxes, logs,
                 containers, prov, collectors, sweeper>>

\* the ports are probed one after the other from the original's host port + 1
ProbePorts(ports) ==
  [i \in 1..Len(ports) |->
     [container |-> ports[i].container, host |-> findAvailablePort(ports[i].host + 1)]]

ReplicateProbe(c) ==
  /\ calls[c].op = "replicate" /\ calls[c].pc = "probe"
  /\ LET newPorts == ProbePorts(calls[c].ports) IN
       IF \E i \in 1..Len(newPorts) : newPorts[i].host = NULL
       THEN Throw(c, "Error")
       ELSE calls' = [calls EXCEPT ![c].pc = "quota", ![c].ports = newPorts,
                                   ![c].override = TRUE]
  /\ UNCHANGED <<now, environments, versions, envLock, sandboxes, logs,
                 containers, prov, collectors, sweeper, hist>>

(***************************************************************************)
(* SandboxService.provisionSandbox: one task per call of it                *)
(***************************************************************************)
ProvAt(s, pc) == s \in DOMAIN prov /\ prov[s].pc = pc

ProvGoto(s, pc) == prov' = [prov EXCEPT ![s].pc = pc]

\* UPDATE sandboxes SET status = $1, phase = $2 WHERE id = $3 (no row: no effect)
SetStatus(s, status, phase) ==
  IF s \in DOMAIN sandboxes
  THEN [sandboxes EXCEPT ![s].status = status, ![s].phase = phase]
  ELSE sandboxes

\* the row is reloaded ("Sandbox not found" is thrown without it) and the
\* version's secrets are read; the container's env is not part of the model
ProvLoad(s) ==
  /\ ProvAt(s, "load")
  /\ IF s \in DOMAIN sandboxes
     THEN prov' = [prov EXCEPT ![s].pc = "create", ![s].ports = sandboxes[s].ports]
     ELSE ProvGoto(s, "fail")
  /\ UNCHANGED <<now, environments, versions, envLock, sandboxes, logs,
                 containers, collectors, calls, sweeper, hist>>

\* docker.createContainer: the image is pulled and the container created under the
\* name sandbox-<id>; the pull or the creation may fail, and the name must be free
ProvCreate(s) ==
  /\ ProvAt(s, "create")
  /\ \/ /\ s \notin DOMAIN containers
        /\ containers' = (s :> [state |-> "created", ports |-> prov[s].ports,
                                emitted |-> 0, out |-> <<>>]) @@ containers
        /\ hist' = [hist EXCEPT !.created[s] = @ + 1]
        /\ ProvGoto(s, "setcid")
     \/ /\ ProvGoto(s, "fail")
        /\ UNCHANGED <<containers, hist>>
  /\ UNCHANGED <<now, environments, versions, envLock, sandboxes, logs,
                 collectors, calls, sweeper>>

\* variant that writes the phase only
ProvSetContainerPhaseOnly(s) ==
  /\ ProvAt(s, "setcid")
  /\ sandboxes' = IF s \in DOMAIN sandboxes
                  THEN [sandboxes EXCEPT ![s].phase = "starting"]
                  ELSE sandboxes
  /\ ProvGoto(s, "start")
  /\ UNCHANGED <<now, environments, versions, envLock, logs, containers,
                 collectors, calls, sweeper, hist>>

\* UPDATE sandboxes SET container_id = $1, phase = 'starting' WHERE id = $3
ProvSetContainer(s) ==
  /\ ProvAt(s, "setcid")
  /\ sandboxes' = IF s \in DOMAIN sandboxes
                  THEN [sandboxes EXCEPT ![s].container_id = s, ![s].phase = "starting"]
                  ELSE sandboxes
  /\ ProvGoto(s, "start")
  /\ UNCHANGED <<now, environments, versions, envLock, logs, containers,
                 collectors, calls, sweeper, hist>>

\* container.start(): fails for a container that is gone or already running, or
\* whose host port is bound by another running container
CanStart(k) ==
  /\ k \in DOMAIN containers
  /\ containers[k].state # "running"
  /\ {containers[k].ports[i].host : i \in 1..Len(containers[k].ports)}
       \cap BusyPorts = {}

\* docker.startContainer(containerId)
ProvStart(s) ==
  /\ ProvAt(s, "start")
  /\ IF CanStart(s)
     THEN containers' = [containers EXCEPT ![s].state = "running"] /\ ProvGoto(s, "wait")
     ELSE UNCHANGED containers /\ ProvGoto(s, "fail")
  /\ UNCHANGED <<now, environments, versions, envLock, sandboxes, logs,
                 collectors, calls, sweeper, hist>>

\* docker.waitForHealthy: true when the container is seen running
ProvWait(s) ==
  /\ ProvAt(s, "wait")
  /\ prov' = [prov EXCEPT ![s].pc = "mark",
                          ![s].healthy = s \in DOMAIN containers
                                         /\ containers[s].state = "running"]
  /\ UNCHANGED <<now, environments, versions, envLock, sandboxes, logs,
                 containers, collectors, calls, sweeper, hist>>

\* this.collectLogs(sandboxId, containerId): streamLogs from the beginning (since 0)
SpawnCollector(s, k) ==
  Append(collectors, [sb |-> s, cid |-> k, pos |-> 0, kind |-> "collector",
                      open |-> TRUE])

\* healthy: UPDATE ... 'running', 'healthy' and the log collector is started;
\* otherwise UPDATE ... 'error', 'failed'
ProvMark(s) ==
  /\ ProvAt(s, "mark")
  /\ IF prov[s].healthy
     THEN /\ sandboxes' = SetStatus(s, "running", "healthy")
          /\ collectors' = SpawnCollector(s, s)
          /\ hist' = [hist EXCEPT !.collectorsStarted[s] = @ + 1]
     ELSE /\ sandboxes' = SetStatus(s, "error", "failed")
          /\ UNCHANGED <<collectors, hist>>
  /\ ProvGoto(s, "done")
  /\ UNCHANGED <<now, environments, versions, envLock, logs, containers,
                 calls, sweeper>>

\* variant whose catch block only logs
ProvFailLogOnly(s) ==
  /\ ProvAt(s, "fail")
  /\ ProvGoto(s, "done")
  /\ UNCHANGED <<now, environments, versions, envLock, sandboxes, logs, containers,
                 collectors, calls, sweeper, hist>>

\* catch (err): UPDATE sandboxes SET status = 'error', phase = 'failed'
ProvFail(s) ==
  /\ ProvAt(s, "fail")
  /\ sandboxes' = SetStatus(s, "error", "failed")
  /\ ProvGoto(s, "done")
  /\ UNCHANGED <<now, environments, versions, envLock, logs, containers,
                 collectors, calls, sweeper, hist>>

ProvStep(s) ==
  \/ ProvLoad(s) \/ ProvCreate(s) \/ ProvSetContainer(s) \/ ProvStart(s)
  \/ ProvWait(s) \/ ProvMark(s) \/ ProvFail(s)

(***************************************************************************)
(* The container's own behaviour, and SandboxService.collectLogs           *)
(***************************************************************************)
\* the container's process ends by itself
ContainerExit(k) ==
  /\ k \in DOMAIN containers /\ containers[k].state = "running"
  /\ containers' = [containers EXCEPT ![k].state = "exited"]
  /\ UNCHANGED <<now, environments, versions, envLock, sandboxes, logs, prov,
                 collectors, calls, sweeper, hist>>

\* the runtime marks the container dead
ContainerDie(k) ==
  /\ k \in DOMAIN containers /\ containers[k].state \in {"running", "exited"}
  /\ containers' = [containers EXCEPT ![k].state = "dead"]
  /\ UNCHANGED <<now, environments, versions, envLock, sandboxes, logs, prov,
                 collectors, calls, sweeper, hist>>

\* the container is removed from the runtime by someone else than the platform
ContainerVanish(k) ==
  /\ k \in DOMAIN containers
  /\ containers' = RemoveKey(containers, k)
  /\ UNCHANGED <<now, environments, versions, envLock, sandboxes, logs, prov,
                 collectors, calls, sweeper, hist>>

\* the container writes a line to stdout or stderr; the runtime keeps it
ContainerEmit(k) ==
  /\ k \in DOMAIN containers /\ containers[k].state = "running"
  /\ containers[k].emitted < MaxEmit
  /\ \E text \in RawTexts :
       /\ containers' = [containers EXCEPT ![k].emitted = @ + 1,
                                           ![k].out = Append(@, text)]
       /\ hist' = [hist EXCEPT !.out[k] = Append(@, text)]
  /\ UNCHANGED <<now, environments, versions, envLock, sandboxes, logs, prov,
                 collectors, calls, sweeper>>

\* variant that passes the runtime's text on as it is
redactedTextRaw(text) == text

\* const redactedText = redactSecrets(log.text)
redactedText(text) == redactSecrets(text)

\* the sandbox_logs row of event n of container k; the timestamp is the event's
LogRow(k, n) ==
  [timestamp |-> n, type |-> "stdout", text |-> redactedText(containers[k].out[n])]

\* ORDER BY timestamp DESC LIMIT 10000
LogLimit == 10000

\* DELETE FROM sandbox_logs WHERE sandbox_id = $1 AND id NOT IN (SELECT id ...
\* ORDER BY timestamp DESC LIMIT n): the n newest rows stay, in the order of
\* their insertion; of rows with one timestamp the later inserted is taken first
KeepNewest(rows, n) ==
  IF Len(rows) <= n THEN rows
  ELSE LET byTime == SortSeq([i \in 1..Len(rows) |-> i],
                             LAMBDA a, b : \/ rows[a].timestamp > rows[b].timestamp
                                           \/ /\ rows[a].timestamp = rows[b].timestamp
                                              /\ a > b)
           keep == {byTime[j] : j \in 1..n}
           F[i \in 0..Len(rows)] ==
             IF i = 0 THEN <<>>
             ELSE IF i \in keep THEN Append(F[i - 1], rows[i]) ELSE F[i - 1]
       IN F[Len(rows)]

\* one turn of "for await (const log of docker.streamLogs(containerId))": the next
\* event is redacted and inserted (REFERENCES sandboxes(id): the insert throws
\* without the row) and the rows beyond the limit are deleted; the stream ends
\* with the container, and a throw ends the task
CollectorWrite(i, limit) ==
  /\ i \in 1..Len(collectors) /\ collectors[i].kind = "collector"
  /\ LET t == collectors[i]
         k == t.cid
     IN IF k \notin DOMAIN containers
        THEN collectors' = RemoveAt(collectors, i) /\ UNCHANGED logs
        ELSE IF t.pos < containers[k].emitted
        THEN IF t.sb \in DOMAIN sandboxes
             THEN /\ logs' = [logs EXCEPT ![t.sb] =
                                KeepNewest(Append(@, LogRow(k, t.pos + 1)), limit)]
                  /\ collectors' = [collectors EXCEPT ![i].pos = @ + 1]
             ELSE collectors' = RemoveAt(collectors, i) /\ UNCHANGED logs
        ELSE /\ containers[k].state # "running"
             /\ collectors' = RemoveAt(collectors, i)
             /\ UNCHANGED logs
  /\ UNCHANGED <<now, environments, versions, envLock, sandboxes, containers,
                 prov, calls, sweeper, hist>>

CollectorStep(i) == CollectorWrite(i, LogLimit)

(***************************************************************************)
(* SandboxService: start, stop, restart, destroy                           *)
(***************************************************************************)
BeginOp(c, op, u, sb, max) ==
  /\ CanBegin(c, max)
  /\ calls' = [calls EXCEPT ![c] = NewCall(op, "load", u, sb, NULL, NULL, NoName, NULL)]
  /\ hist' = Begun
  /\ UNCHANGED <<now, environments, versions, envLock, sandboxes, logs,
                 containers, prov, collectors, sweeper>>

At(c, op, pc) == calls[c].op = op /\ calls[c].pc = pc

\* startSandbox: the row is loaded, scoped to the user; a running sandbox is returned
StartLoad(c) ==
  /\ At(c, "start", "load")
  /\ LET sb == calls[c].sb IN
       IF ~OwnedRow(calls[c].user, sb) THEN Throw(c, "NotFound")
       ELSE IF sandboxes[sb].status = "running" THEN Finish(c, SandboxResponse(sb))
       ELSE IF sandboxes[sb].container_id = NULL THEN Throw(c, "Error")
       ELSE calls' = [calls EXCEPT ![c].pc = "runtime",
                                   ![c].cid = sandboxes[sb].container_id]
  /\ UNCHANGED <<now, environments, versions, envLock, sandboxes, logs,
                 containers, prov, collectors, sweeper, hist>>

\* docker.startContainer(sandbox.container_id)
StartRuntime(c) ==
  /\ At(c, "start", "runtime")
  /\ IF CanStart(calls[c].cid)
     THEN /\ containers' = [containers EXCEPT ![calls[c].cid].state = "running"]
          /\ Goto(c, "update")
     ELSE Throw(c, "Error") /\ UNCHANGED containers
  /\ UNCHANGED <<now, environments, versions, envLock, sandboxes, logs,
                 prov, collectors, sweeper, hist>>

\* UPDATE ... 'running', 'healthy' WHERE id = $1; the log collection is restarted
StartUpdate(c) ==
  /\ At(c, "start", "update")
  /\ sandboxes' = SetStatus(calls[c].sb, "running", "healthy")
  /\ collectors' = SpawnCollector(calls[c].sb, calls[c].cid)
  /\ hist' = [hist EXCEPT !.collectorsStarted[calls[c].sb] = @ + 1]
  /\ Goto(c, "get")
  /\ UNCHANGED <<now, environments, versions, envLock, logs, containers,
                 prov, sweeper>>

\* return this.getSandbox(userId, sandboxId), at the end of start, stop and restart
OpGet(c) ==
  /\ calls[c].op \in {"start", "stop", "restart"} /\ calls[c].pc = "get"
  /\ Finish(c, GetSandbox(calls[c].user, calls[c].sb))
  /\ UNCHANGED <<now, environments, versions, envLock, sandboxes, logs,
                 containers, prov, collectors, sweeper, hist>>

\* stopSandbox: the row is loaded, scoped to the user; a stopped sandbox is returned
StopLoad(c) ==
  /\ At(c, "stop", "load")
  /\ LET sb == calls[c].sb IN
       IF ~OwnedRow(calls[c].user, sb) THEN Throw(c, "NotFound")
       ELSE IF sandboxes[sb].status = "stopped" THEN Finish(c, SandboxResponse(sb))
       ELSE IF sandboxes[sb].container_id = NULL THEN Throw(c, "Error")
       ELSE calls' = [calls EXCEPT ![c].pc = "runtime",
                                   ![c].cid = sandboxes[sb].container_id]
  /\ UNCHANGED <<now, environments, versions, envLock, sandboxes, logs,
                 containers, prov, collectors, sweeper, hist>>

\* docker.stopContainer: 304 (not running) is swallowed, 404 (no container) thrown
stopContainer(k) ==
  IF containers[k].state = "running"
  THEN [containers EXCEPT ![k].state = "exited"]
  ELSE containers

StopRuntime(c) ==
  /\ At(c, "stop", "runtime")
  /\ IF calls[c].cid \in DOMAIN containers
     THEN containers' = stopContainer(calls[c].cid) /\ Goto(c, "update")
     ELSE Throw(c, "Error") /\ UNCHANGED containers
  /\ UNCHANGED <<now, environments, versions, envLock, sandboxes, logs,
                 prov, collectors, sweeper, hist>>

\* UPDATE ... 'stopped', 'stopped', stopped_at = NOW() WHERE id = $1
StopUpdate(c) ==
  /\ At(c, "stop", "update")
  /\ sandboxes' = SetStatus(calls[c].sb, "stopped", "stopped")
  /\ Goto(c, "get")
  /\ UNCHANGED <<now, environments, versions, envLock, logs, containers,
                 prov, collectors, sweeper, hist>>

\* restartSandbox: the row is loaded, scoped to the user; no check of the status
RestartLoad(c) ==
  /\ At(c, "restart", "load")
  /\ LET sb == calls[c].sb IN
       IF ~OwnedRow(calls[c].user, sb) THEN Throw(c, "NotFound")
       ELSE IF sandboxes[sb].container_id = NULL THEN Throw(c, "Error")
       ELSE calls' = [calls EXCEPT ![c].pc = "runtime",
                                   ![c].cid = sandboxes[sb].container_id]
  /\ UNCHANGED <<now, environments, versions, envLock, sandboxes, logs,
                 containers, prov, collectors, sweeper, hist>>

\* container.restart(): a running container is stopped, then it is started
CanRestart(k) ==
  k \in DOMAIN containers /\ (containers[k].state = "running" \/ CanStart(k))

\* docker.restartContainer(sandbox.container_id)
RestartRuntime(c) ==
  /\ At(c, "restart", "runtime")
  /\ IF CanRestart(calls[c].cid)
     THEN /\ containers' = [containers EXCEPT ![calls[c].cid].state = "running"]
          /\ Goto(c, "update")
     ELSE Throw(c, "Error") /\ UNCHANGED containers
  /\ UNCHANGED <<now, environments, versions, envLock, sandboxes, logs,
                 prov, collectors, sweeper, hist>>

\* UPDATE ... 'running', 'healthy', started_at = NOW(), stopped_at = NULL
RestartUpdate(c) ==
  /\ At(c, "restart", "update")
  /\ sandboxes' = SetStatus(calls[c].sb, "running", "healthy")
  /\ Goto(c, "get")
  /\ UNCHANGED <<now, environments, versions, envLock, logs, containers,
                 prov, collectors, sweeper, hist>>

\* destroySandbox: the row is loaded, scoped to the user; false without it
DestroyLoad(c) ==
  /\ At(c, "destroy", "load")
  /\ LET sb == calls[c].sb IN
       IF ~OwnedRow(calls[c].user, sb) THEN Finish(c, [kind |-> "false"])
       ELSE calls' = [calls EXCEPT
              ![c].pc = IF sandboxes[sb].container_id # NULL THEN "remove" ELSE "delete",
              ![c].cid = sandboxes[sb].container_id]
  /\ UNCHANGED <<now, environments, versions, envLock, sandboxes, logs,
                 containers, prov, collectors, sweeper, hist>>

\* docker.removeContainer (force): 404 (no container) is swallowed
removeContainer(k) == RemoveKey(containers, k)

DestroyRemove(c) ==
  /\ At(c, "destroy", "remove")
  /\ containers' = removeContainer(calls[c].cid)
  /\ Goto(c, "delete")
  /\ UNCHANGED <<now, environments, versions, envLock, sandboxes, logs,
                 prov, collectors, sweeper, hist>>

\* DELETE FROM sandboxes WHERE id = $1 (sandbox_logs: ON DELETE CASCADE); true
DestroyDelete(c) ==
  /\ At(c, "destroy", "delete")
  /\ sandboxes' = RemoveKey(sandboxes, calls[c].sb)
  /\ logs' = [logs EXCEPT ![calls[c].sb] = <<>>]
  /\ hist' = [hist EXCEPT !.destroyed = @ \cup {calls[c].sb}]
  /\ Finish(c, [kind |-> "true"])
  /\ UNCHANGED <<now, environments, versions, envLock, containers, prov,
                 collectors, sweeper>>

(***************************************************************************)
(* SandboxService: getSandbox, getLogs, getContainerId; the WebSocket hub  *)
(***************************************************************************)
\* getSandbox(userId, sandboxId) as called by GET /sandboxes/:id
GetLoad(c) ==
  /\ At(c, "get", "load")
  /\ Finish(c, GetSandbox(calls[c].user, calls[c].sb))
  /\ UNCHANGED <<now, environments, versions, envLock, sandboxes, logs,
                 containers, prov, collectors, sweeper, hist>>

\* getLogs: the ownership is verified, then the newest rows are read
LogsLoad(c) ==
  /\ At(c, "logs", "load")
  /\ IF ~OwnedRow(calls[c].user, calls[c].sb) THEN Throw(c, "NotFound")
     ELSE Goto(c, "read")
  /\ UNCHANGED <<now, environments, versions, envLock, sandboxes, logs,
                 containers, prov, collectors, sweeper, hist>>

LogsRead(c) ==
  /\ At(c, "logs", "read")
  /\ Finish(c, [kind |-> "logs", rows |-> logs[calls[c].sb]])
  /\ UNCHANGED <<now, environments, versions, envLock, sandboxes, logs,
                 containers, prov, collectors, sweeper, hist>>

\* getContainerId: SELECT container_id ... WHERE id = $1 AND user_id = $2, or null
ContainerIdLoad(c) ==
  /\ At(c, "cid", "load")
  /\ Finish(c, IF OwnedRow(calls[c].user, calls[c].sb)
                  /\ sandboxes[calls[c].sb].container_id # NULL
               THEN [kind |-> "cid", id |-> sandboxes[calls[c].sb].container_id]
               ELSE [kind |-> "null"])
  /\ UNCHANGED <<now, environments, versions, envLock, sandboxes, logs,
                 containers, prov, collectors, sweeper, hist>>

\* sendMessage(ws, {event: "status", data: {status: sandbox.status}})
StatusFrame(status) == [event |-> "status", status |-> status]

\* setupWebSocket, after the token is verified: SELECT ... WHERE id = $1 and
\* sandbox.user_id !== userId closes the socket with 4004
WsConnect(c) ==
  /\ At(c, "ws", "load")
  /\ LET sb == calls[c].sb IN
       IF sb \notin DOMAIN sandboxes \/ sandboxes[sb].user_id # calls[c].user
       THEN Finish(c, [kind |-> "closed", code |-> 4004])
       ELSE calls' = [calls EXCEPT ![c].pc = "history",
                                   ![c].erow = WithId(sandboxes[sb], sb),
                                   ![c].sent = <<StatusFrame(sandboxes[sb].status)>>]
  /\ UNCHANGED <<now, environments, versions, envLock, sandboxes, logs,
                 containers, prov, collectors, sweeper, hist>>

\* ORDER BY timestamp DESC
ByTimestampDesc(rows) == SortSeq(rows, LAMBDA a, b : a.timestamp > b.timestamp)

\* the "log" frame sent for a row or for an event
LogFrame(row) ==
  [event |-> "log", type |-> row.type, text |-> row.text, timestamp |-> row.timestamp]

\* ORDER BY timestamp DESC LIMIT 100
HistoryLimit == 100

\* variant of Array.prototype.reverse that leaves the order as it is
reverseNot(rows) == rows

\* Array.prototype.reverse
reverse(rows) == [i \in 1..Len(rows) |-> rows[Len(rows) + 1 - i]]

\* SELECT type, text, timestamp FROM sandbox_logs WHERE sandbox_id = $1
\* ORDER BY timestamp DESC LIMIT 100
historicalLogs(sb) ==
  LET desc == ByTimestampDesc(logs[sb])
  IN SubSeq(desc, 1, Min({Len(desc), HistoryLimit}))

\* handleLogStream: the stored rows are sent as log frames; with a container id and
\* status running (as read at the connection) streamContainerLogs starts a stream
\* of the events from now on, which are sent and also inserted
WsHistory(c) ==
  /\ At(c, "ws", "history")
  /\ \E desc \in {historicalLogs(calls[c].sb)} :
     LET sb == calls[c].sb
         row == calls[c].erow
         rows == reverse(desc)
         frames == [i \in 1..Len(rows) |-> LogFrame(rows[i])]
         k == row.container_id
     IN /\ calls' = [calls EXCEPT ![c] =
             [calls[c] EXCEPT !.pc = "done", !.erow = NoRow,
                              !.sent = @ \o frames,
                              !.res = [kind |-> "open", status |-> row.status,
                                       frames |-> frames]]]
        /\ collectors' =
             IF k # NULL /\ row.status = "running"
             THEN Append(collectors,
                         [sb |-> sb, cid |-> k, kind |-> "viewer", open |-> TRUE,
                          ended |-> FALSE, frames |-> <<>>,
                          sent |-> calls[c].sent \o frames,
                          pos |-> IF k \in DOMAIN containers
                                  THEN containers[k].emitted ELSE 0])
             ELSE collectors
  /\ UNCHANGED <<now, environments, versions, envLock, sandboxes, logs,
                 containers, prov, sweeper, hist>>

\* one turn of streamContainerLogs' loop: the loop breaks once the socket is
\* closed; otherwise the event is redacted, sent, and inserted (the insert throws
\* without the sandbox row, which ends the stream after the frame was sent)
ViewerStep(i) ==
  /\ i \in 1..Len(collectors) /\ collectors[i].kind = "viewer"
  /\ ~collectors[i].ended
  /\ LET t == collectors[i]
         k == t.cid
     IN IF k \notin DOMAIN containers
        THEN collectors' = [collectors EXCEPT ![i].ended = TRUE] /\ UNCHANGED logs
        ELSE IF t.pos < containers[k].emitted
        THEN IF ~t.open
             THEN collectors' = [collectors EXCEPT ![i].ended = TRUE]
                  /\ UNCHANGED logs
             ELSE /\ collectors' =
                       [collectors EXCEPT ![i].pos = @ + 1,
                                          ![i].frames = Append(@, LogFrame(LogRow(k, t.pos + 1))),
                                          ![i].sent = Append(@, LogFrame(LogRow(k, t.pos + 1))),
                                          ![i].ended = t.sb \notin DOMAIN sandboxes]
                  /\ logs' = IF t.sb \in DOMAIN sandboxes
                             THEN [logs EXCEPT ![t.sb] = Append(@, LogRow(k, t.pos + 1))]
                             ELSE logs
        ELSE /\ containers[k].state # "running"
             /\ collectors' = [collectors EXCEPT ![i].ended = TRUE]
             /\ UNCHANGED logs
  /\ UNCHANGED <<now, environments, versions, envLock, sandboxes, containers,
                 prov, calls, sweeper, hist>>

\* the client closes the socket: ws.on("close") runs the stream's cleanup
WsClose(i) ==
  /\ i \in 1..Len(collectors) /\ collectors[i].kind = "viewer"
  /\ collectors[i].open
  /\ collectors' = [collectors EXCEPT ![i].open = FALSE]
  /\ UNCHANGED <<now, environments, versions, envLock, sandboxes, logs,
                 containers, prov, calls, sweeper, hist>>

(***************************************************************************)
(* WebSocket /ws/sandboxes/:id/terminal                                    *)
(***************************************************************************)
\* the tokens a connection may carry: A's, B's, an expired one, none
Tokens == {"tokA", "tokB", "expired", Nil}

\* authService.verifyToken / validateApiKey: the user of the token, if it is valid
verifyToken(token) ==
  CASE token = "tokA" -> "A"
    [] token = "tokB" -> "B"
    [] OTHER -> Nil

\* a connection to /ws/sandboxes/sb/terminal
BeginTerminal(c, token, sb, max) ==
  /\ CanBegin(c, max)
  /\ calls' = [calls EXCEPT ![c] =
       [NewCall("terminal", "auth", Nil, sb, NULL, NULL, NoName, NULL)
          EXCEPT !.key = token]]
  /\ hist' = Begun
  /\ UNCHANGED <<now, environments, versions, envLock, sandboxes, logs,
                 containers, prov, collectors, sweeper>>

\* no token, or a token that names no user: close(4001, "Unauthorized")
TerminalAuth(c) ==
  /\ At(c, "terminal", "auth")
  /\ LET userId == IF calls[c].key = Nil THEN Nil ELSE verifyToken(calls[c].key) IN
       IF userId = Nil THEN Finish(c, [kind |-> "closed", code |-> 4001])
       ELSE calls' = [calls EXCEPT ![c].pc = "load", ![c].user = userId]
  /\ UNCHANGED <<now, environments, versions, envLock, sandboxes, logs,
                 containers, prov, collectors, sweeper, hist>>

\* variant of the test that asks for a container id only
terminalAllowedAnyStatus(row) == row.container_id # NULL

\* handleTerminal: sandbox.status !== "running" || !sandbox.container_id closes
terminalAllowed(row) == row.status = "running" /\ row.container_id # NULL

\* the row is read; a missing row or another user's closes with 4004; then
\* handleTerminal closes with 4003 unless the row is running with a container id
TerminalConnect(c) ==
  /\ At(c, "terminal", "load")
  /\ LET sb == calls[c].sb IN
       IF sb \notin DOMAIN sandboxes \/ sandboxes[sb].user_id # calls[c].user
       THEN Finish(c, [kind |-> "closed", code |-> 4004])
       ELSE IF ~terminalAllowed(sandboxes[sb])
       THEN Finish(c, [kind |-> "closed", code |-> 4003])
       ELSE calls' = [calls EXCEPT ![c].pc = "exec",
                                   ![c].erow = WithId(sandboxes[sb], sb)]
  /\ UNCHANGED <<now, environments, versions, envLock, sandboxes, logs,
                 containers, prov, collectors, sweeper, hist>>

\* docker.createInteractiveExec(sandbox.container_id): the runtime makes an exec
\* instance in a running container and refuses otherwise, which closes the
\* socket with 1011; then {type: "ready"}
TerminalExec(c) ==
  /\ At(c, "terminal", "exec")
  /\ LET k == calls[c].erow.container_id IN
       IF k \in DOMAIN containers /\ containers[k].state = "running"
       THEN /\ hist' = [hist EXCEPT !.execs =
                          Append(@, [seq |-> calls[c].seq, token |-> calls[c].key,
                                     user |-> calls[c].user, sb |-> calls[c].sb,
                                     cid |-> k, row |-> calls[c].erow])]
            /\ Finish(c, [kind |-> "ready"])
       ELSE /\ Finish(c, [kind |-> "closed", code |-> 1011])
            /\ UNCHANGED hist
  /\ UNCHANGED <<now, environments, versions, envLock, sandboxes, logs,
                 containers, prov, collectors, sweeper>>

(***************************************************************************)
(* SecretsService and EnvironmentService                                   *)
(***************************************************************************)
SecretKeys == {"K1", "K2"}
SecretValues == {"s1", "s2"}
Nonces == {"r1", "r2"}

\* secretsService.encrypt(plaintext): the random nonce followed by the secretbox
encrypt(plaintext, nonce) == <<"box", nonce, plaintext>>

\* the values a stored secret may have
Ciphertexts == {encrypt(v, r) : v \in SecretValues, r \in Nonces}

\* variant of toResponse that puts the stored secrets into the response
toResponseWithSecrets(env, version) ==
  [id |-> env.id, name |-> env.name, currentVersionId |-> env.current_version_id,
   version |-> IF version = NoRow THEN [kind |-> "undefined"]
               ELSE [kind |-> "version", id |-> version.id,
                     version |-> version.version, image |-> version.image,
                     cpu |-> version.cpu, memory |-> version.memory,
                     ports |-> version.ports, env |-> version.env,
                     secrets |-> {[key |-> k, value |-> version.secrets[k]] :
                                    k \in DOMAIN version.secrets},
                     mounts |-> version.mounts, createdAt |-> version.created_at],
   createdAt |-> env.created_at, updatedAt |-> env.updated_at]

\* EnvironmentService.toResponse(env, version): the secrets are mapped to their keys
toResponse(env, version) ==
  [id |-> env.id, name |-> env.name, currentVersionId |-> env.current_version_id,
   version |-> IF version = NoRow THEN [kind |-> "undefined"]
               ELSE [kind |-> "version", id |-> version.id,
                     version |-> version.version, image |-> version.image,
                     cpu |-> version.cpu, memory |-> version.memory,
                     ports |-> version.ports, env |-> version.env,
                     secrets |-> {[key |-> k, redacted |-> TRUE] :
                                    k \in DOMAIN version.secrets},
                     mounts |-> version.mounts, createdAt |-> version.created_at],
   createdAt |-> env.created_at, updatedAt |-> env.updated_at]

\* the body of the PUT /environments/:id answer, built from updateEnvironment's
\* result: the environment row as it was read, and the new version
PutResponse(env, version) ==
  [id |-> env.id, name |-> env.name, currentVersionId |-> version.id,
   version |-> [kind |-> "version", id |-> version.id,
                version |-> version.version, image |-> version.image,
                cpu |-> version.cpu, memory |-> version.memory,
                ports |-> version.ports, env |-> version.env,
                secrets |-> {[key |-> k, redacted |-> TRUE] :
                               k \in DOMAIN version.secrets},
                mounts |-> version.mounts, createdAt |-> version.created_at],
   createdAt |-> env.created_at, updatedAt |-> env.updated_at]

\* SELECT ... FROM environments WHERE id = $1 AND user_id = $2
EnvRowOf(u, e) ==
  IF e \in DOMAIN environments /\ environments[e].user_id = u
  THEN WithId(environments[e], e) ELSE NoRow

\* SELECT ... FROM environment_versions WHERE id = $1
VersionRowOf(v) == IF v \in DOMAIN versions THEN WithId(versions[v], v) ELSE NoRow

\* a call of an EnvironmentService method; transaction() has run BEGIN, and NOW()
\* is the transaction's start time from here on
BeginEnvOp(c, op, u, e, key, value, image, max) ==
  /\ CanBegin(c, max)
  /\ calls' = [calls EXCEPT ![c] =
       [NewCall(op, "load", u, NULL, e, NULL, NoName, NULL)
          EXCEPT !.key = key, !.value = value, !.image = image, !.exp = now]]
  /\ hist' = Begun
  /\ UNCHANGED <<now, environments, versions, envLock, sandboxes, logs,
                 containers, prov, collectors, sweeper>>

\* getEnvironment: the environment row, scoped to the user; null without it
GetEnvLoad(c) ==
  /\ At(c, "getEnv", "load")
  /\ LET row == EnvRowOf(calls[c].user, calls[c].env) IN
       IF row = NoRow THEN Finish(c, [kind |-> "null"])
       ELSE IF row.current_version_id = NULL
       THEN calls' = [calls EXCEPT ![c] =
                        [calls[c] EXCEPT !.pc = "done", !.exp = NULL,
                                         !.used = <<<<row, NoRow>>>>,
                                         !.res = [kind |-> "env",
                                                  body |-> toResponse(row, NoRow)]]]
       ELSE calls' = [calls EXCEPT ![c].pc = "version", ![c].erow = row]
  /\ UNCHANGED <<now, environments, versions, envLock, sandboxes, logs,
                 containers, prov, collectors, sweeper, hist>>

\* getEnvironment: the current version's row, then toResponse
GetEnvVersion(c) ==
  /\ At(c, "getEnv", "version")
  /\ LET version == VersionRowOf(calls[c].erow.current_version_id) IN
       calls' = [calls EXCEPT ![c] =
                   [calls[c] EXCEPT !.pc = "done", !.exp = NULL, !.erow = NoRow,
                                    !.used = <<<<calls[c].erow, version>>>>,
                                    !.res = [kind |-> "env",
                                             body |-> toResponse(calls[c].erow, version)]]]
  /\ UNCHANGED <<now, environments, versions, envLock, sandboxes, logs,
                 containers, prov, collectors, sweeper, hist>>

\* listEnvironments: the user's environment rows
ListEnvLoad(c) ==
  /\ At(c, "listEnv", "load")
  /\ LET rows == {WithId(environments[e], e) :
                    e \in {x \in DOMAIN environments :
                             environments[x].user_id = calls[c].user}}
     IN IF rows = {} THEN Finish(c, [kind |-> "list", body |-> <<>>])
        ELSE calls' = [calls EXCEPT ![c].pc = "version", ![c].snap = rows,
                                    ![c].res = [kind |-> "list", body |-> <<>>]]
  /\ UNCHANGED <<now, environments, versions, envLock, sandboxes, logs,
                 containers, prov, collectors, sweeper, hist>>

\* listEnvironments: the next row's current version is read and its response pushed
ListEnvVersion(c) ==
  /\ At(c, "listEnv", "version")
  /\ LET row == CHOOSE r \in calls[c].snap : \A q \in calls[c].snap : r.id <= q.id
         version == IF row.current_version_id = NULL THEN NoRow
                    ELSE VersionRowOf(row.current_version_id)
         body == Append(calls[c].res.body, toResponse(row, version))
         used == Append(calls[c].used, <<row, version>>)
     IN IF calls[c].snap = {row}
        THEN calls' = [calls EXCEPT ![c] =
                         [calls[c] EXCEPT !.pc = "done", !.snap = <<>>, !.exp = NULL,
                                          !.used = used,
                                          !.res = [kind |-> "list", body |-> body]]]
        ELSE calls' = [calls EXCEPT ![c].snap = @ \ {row}, ![c].res.body = body,
                                    ![c].used = used]
  /\ UNCHANGED <<now, environments, versions, envLock, sandboxes, logs,
                 containers, prov, collectors, sweeper, hist>>

\* SELECT ... FOR UPDATE: the call holds the environment's row lock until its
\* transaction ends; a second transaction waits for it
\* variant in which the SELECT takes no lock notice
LockedNever(e) == FALSE

Locked(e) == e \in DOMAIN envLock

Lock(c, e) == envLock' = (e :> c) @@ envLock

Unlock(e) == envLock' = [x \in DOMAIN envLock \ {e} |-> envLock[x]]

\* the version rows of environment e
VersionsOf(e) ==
  [v \in {x \in DOMAIN versions : versions[x].environment_id = e} |-> versions[v]]

\* updateEnvironment: the environment row is read and locked, scoped to the user
UpdateLock(c) ==
  /\ At(c, "update", "load")
  /\ LET e == calls[c].env
         row == EnvRowOf(calls[c].user, e)
     IN IF row = NoRow
        THEN Throw(c, "NotFound") /\ UNCHANGED envLock
        ELSE /\ ~Locked(e)
             /\ Lock(c, e)
             /\ calls' = [calls EXCEPT ![c].pc = "read", ![c].erow = row,
                                       ![c].vers = VersionsOf(e)]
  /\ UNCHANGED <<now, environments, versions, sandboxes, logs, containers,
                 prov, collectors, sweeper, hist>>

\* updateEnvironment: the current version's row; without it the call rolls back
UpdateRead(c) ==
  /\ At(c, "update", "read")
  /\ LET cur == VersionRowOf(calls[c].erow.current_version_id) IN
       IF cur = NoRow
       THEN Throw(c, "Error") /\ Unlock(calls[c].env)
       ELSE calls' = [calls EXCEPT ![c].pc = "commit", ![c].vrow = cur]
            /\ UNCHANGED envLock
  /\ UNCHANGED <<now, environments, versions, sandboxes, logs, containers,
                 prov, collectors, sweeper, hist>>

\* variant that numbers the new version like the current one
newVersionSame(currentVersion) == currentVersion.version

\* const newVersion = currentVersion.version + 1
newVersion(currentVersion) == currentVersion.version + 1

\* the row updateEnvironment inserts: image from the request or carried over, the
\* rest carried over (the request gives no other field), the secrets kept;
\* dockerfile, build_files and command take the column defaults
InsertedVersion(e, cur, image, at) ==
  [environment_id |-> e, version |-> newVersion(cur),
   image |-> IF image = Nil THEN cur.image ELSE image,
   dockerfile |-> Nil, build_files |-> "{}", command |-> Nil,
   cpu |-> cur.cpu, memory |-> cur.memory, ports |-> cur.ports, env |-> cur.env,
   secrets |-> cur.secrets, mounts |-> cur.mounts, created_at |-> at]

\* updateEnvironment: INSERT of the new version, UPDATE of the environment row and
\* COMMIT. The three are one step: no other transaction sees the rows before the
\* COMMIT, and the row lock is held until then. NOW() is the transaction's start.
UpdateCommit(c) ==
  /\ At(c, "update", "commit")
  /\ LET e == calls[c].env
         id == hist.nextVid
         row == InsertedVersion(e, calls[c].vrow, calls[c].image, calls[c].exp)
     IN /\ versions' = (id :> row) @@ versions
        /\ environments' = [environments EXCEPT ![e].current_version_id = id,
                                                ![e].updated_at = calls[c].exp]
        /\ hist' = [hist EXCEPT !.nextVid = @ + 1]
        /\ Unlock(e)
        /\ calls' = [calls EXCEPT ![c].pc = "respond", ![c].vrow = WithId(row, id),
                                  ![c].vers = <<>>]
  /\ UNCHANGED <<now, sandboxes, logs, containers, prov, collectors, sweeper>>

\* PUT /environments/:id: after the audit entry, the answer is built from the
\* environment as updateEnvironment read it and from the new version
PutRespond(c) ==
  /\ At(c, "update", "respond")
  /\ calls' = [calls EXCEPT ![c] =
       [calls[c] EXCEPT !.pc = "done", !.exp = NULL, !.erow = NoRow, !.vrow = NoRow,
                        !.used = <<<<calls[c].erow, calls[c].vrow>>>>,
                        !.res = [kind |-> "put",
                                 body |-> PutResponse(calls[c].erow, calls[c].vrow)]]]
  /\ UNCHANGED <<now, environments, versions, envLock, sandboxes, logs,
                 containers, prov, collectors, sweeper, hist>>

\* setSecret and deleteSecret: the environment row is read and locked; no row or
\* no current version is NotFound
SecretLock(c) ==
  /\ calls[c].op \in {"setSecret", "deleteSecret"} /\ calls[c].pc = "load"
  /\ LET e == calls[c].env
         row == EnvRowOf(calls[c].user, e)
     IN IF row = NoRow
        THEN Throw(c, "NotFound") /\ UNCHANGED envLock
        ELSE /\ ~Locked(e)
             /\ IF row.current_version_id = NULL
                THEN Throw(c, "NotFound") /\ UNCHANGED envLock
                ELSE Lock(c, e)
                     /\ calls' = [calls EXCEPT ![c].pc = "read", ![c].erow = row]
  /\ UNCHANGED <<now, environments, versions, sandboxes, logs, containers,
                 prov, collectors, sweeper, hist>>

\* setSecret: the current version's id and secrets
SetSecretRead(c) ==
  /\ At(c, "setSecret", "read")
  /\ LET cur == VersionRowOf(calls[c].erow.current_version_id) IN
       IF cur = NoRow
       THEN Throw(c, "Error") /\ Unlock(calls[c].env)
       ELSE calls' = [calls EXCEPT ![c].pc = "commit", ![c].vrow = cur]
            /\ UNCHANGED envLock
  /\ UNCHANGED <<now, environments, versions, sandboxes, logs, containers,
                 prov, collectors, sweeper, hist>>

\* what setSecret returns
SecretResult(key, encryptedValue) == [key |-> key, redacted |-> TRUE]

\* setSecret: the value is encrypted under a fresh nonce, the version row's
\* secrets are rewritten in place, COMMIT
SetSecretCommit(c) ==
  /\ At(c, "setSecret", "commit")
  /\ \E nonce \in Nonces :
       LET encryptedValue == encrypt(calls[c].value, nonce)
           secrets == (calls[c].key :> encryptedValue) @@ calls[c].vrow.secrets
       IN /\ versions' = [versions EXCEPT ![calls[c].vrow.id].secrets = secrets]
          /\ Finish(c, [kind |-> "secret",
                        body |-> SecretResult(calls[c].key, encryptedValue)])
  /\ Unlock(calls[c].env)
  /\ UNCHANGED <<now, environments, sandboxes, logs, containers, prov,
                 collectors, sweeper, hist>>

\* deleteSecret: false without the version row or without the key
DeleteSecretRead(c) ==
  /\ At(c, "deleteSecret", "read")
  /\ LET cur == VersionRowOf(calls[c].erow.current_version_id) IN
       IF cur = NoRow \/ calls[c].key \notin DOMAIN cur.secrets
       THEN Finish(c, [kind |-> "false"]) /\ Unlock(calls[c].env)
       ELSE calls' = [calls EXCEPT ![c].pc = "commit", ![c].vrow = cur]
            /\ UNCHANGED envLock
  /\ UNCHANGED <<now, environments, versions, sandboxes, logs, containers,
                 prov, collectors, sweeper, hist>>

\* deleteSecret: the version row's secrets are rewritten without the key, COMMIT
DeleteSecretCommit(c) ==
  /\ At(c, "deleteSecret", "commit")
  /\ versions' = [versions EXCEPT ![calls[c].vrow.id].secrets =
                    RemoveKey(calls[c].vrow.secrets, calls[c].key)]
  /\ Finish(c, [kind |-> "true"])
  /\ Unlock(calls[c].env)
  /\ UNCHANGED <<now, environments, sandboxes, logs, containers, prov,
                 collectors, sweeper, hist>>

\* deleteEnvironment: one DELETE scoped to the user, which waits for the row lock;
\* the version rows, the sandbox rows and their logs go with it (ON DELETE CASCADE)
DeleteEnvironment(c) ==
  /\ At(c, "deleteEnv", "load")
  /\ LET e == calls[c].env IN
       IF EnvRowOf(calls[c].user, e) = NoRow
       THEN Finish(c, [kind |-> "false"])
            /\ UNCHANGED <<environments, versions, sandboxes, logs>>
       ELSE /\ ~Locked(e)
            /\ environments' = RemoveKey(environments, e)
            /\ versions' = [v \in {x \in DOMAIN versions :
                                     versions[x].environment_id # e} |-> versions[v]]
            /\ sandboxes' = [s \in {x \in DOMAIN sandboxes :
                                      sandboxes[x].environment_id # e} |-> sandboxes[s]]
            /\ logs' = [s \in DOMAIN logs |->
                          IF s \in DOMAIN sandboxes /\ sandboxes[s].environment_id = e
                          THEN <<>> ELSE logs[s]]
            /\ Finish(c, [kind |-> "true"])
  /\ UNCHANGED <<now, envLock, containers, prov, collectors, sweeper, hist>>

(***************************************************************************)
(* EnvironmentService.createEnvironment                                    *)
(***************************************************************************)
MAX_ENVIRONMENTS_PER_USER == 5

\* createEnvironment(userId, data): without image and dockerfile the call throws
\* before any query
BeginCreateEnvironment(c, u, data, max) ==
  /\ CanBegin(c, max)
  /\ LET call == [NewCall("createEnv", "count", u, NULL, NULL, NULL, NoName, NULL)
                    EXCEPT !.data = data]
     IN calls' = [calls EXCEPT ![c] =
          IF data.image = Nil /\ data.dockerfile = Nil
          THEN [call EXCEPT !.pc = "done", !.res = [kind |-> "Error"]]
          ELSE call]
  /\ hist' = Begun
  /\ UNCHANGED <<now, environments, versions, envLock, sandboxes, logs,
                 containers, prov, collectors, sweeper>>

\* SELECT COUNT(*) FROM environments WHERE user_id = $1, the quota test, then BEGIN
CreateEnvCount(c) ==
  /\ At(c, "createEnv", "count")
  /\ LET count == Cardinality({e \in DOMAIN environments :
                                 environments[e].user_id = calls[c].user})
     IN IF count >= MAX_ENVIRONMENTS_PER_USER
        THEN Throw(c, "QuotaExceeded")
        ELSE calls' = [calls EXCEPT ![c].pc = "insertEnv", ![c].exp = now]
  /\ UNCHANGED <<now, environments, versions, envLock, sandboxes, logs,
                 containers, prov, collectors, sweeper, hist>>

\* the positions of createEnvironment inside its transaction
InTransaction == {"insertEnv", "insertVersion", "setCurrent", "commit"}

\* another transaction has inserted the same (user_id, name) and has not ended:
\* the unique index makes this INSERT wait for it
PendingSameName(c) ==
  \E d \in Callers \ {c} :
    /\ calls[d].op = "createEnv"
    /\ calls[d].pc \in InTransaction \ {"insertEnv"}
    /\ calls[d].user = calls[c].user
    /\ calls[d].data.name = calls[c].data.name

\* a committed row with the same (user_id, name): UNIQUE(user_id, name)
SameNameRows(u, name) ==
  {e \in DOMAIN environments :
     environments[e].user_id = u /\ environments[e].name = name}

\* what a failed transaction leaves in the call: the ids its INSERTs returned
RolledBack(c, kind) ==
  Finish(c, [kind |-> kind,
             env |-> IF calls[c].erow = NoRow THEN NULL ELSE calls[c].erow.id,
             version |-> IF calls[c].vrow = NoRow THEN NULL ELSE calls[c].vrow.id])

\* variant in which the INSERT is committed on its own
CreateEnvInsertAutocommit(c) ==
  /\ At(c, "createEnv", "insertEnv")
  /\ ~PendingSameName(c)
  /\ LET u == calls[c].user
         id == hist.nextEid
         row == [user_id |-> u, name |-> calls[c].data.name,
                 current_version_id |-> NULL,
                 created_at |-> calls[c].exp, updated_at |-> calls[c].exp]
     IN IF SameNameRows(u, calls[c].data.name) # {}
        THEN RolledBack(c, "Conflict") /\ UNCHANGED <<hist, environments>>
        ELSE /\ calls' = [calls EXCEPT ![c].pc = "insertVersion",
                                       ![c].erow = WithId(row, id)]
             /\ environments' = (id :> row) @@ environments
             /\ hist' = [hist EXCEPT !.nextEid = @ + 1]
  /\ UNCHANGED <<now, versions, envLock, sandboxes, logs,
                 containers, prov, collectors, sweeper>>

\* INSERT INTO environments (user_id, name) ... RETURNING: the row is the
\* transaction's own until COMMIT; a duplicate (user_id, name) is error 23505,
\* the transaction rolls back and the error handler answers 409 CONFLICT
CreateEnvInsert(c) ==
  /\ At(c, "createEnv", "insertEnv")
  /\ ~PendingSameName(c)
  /\ LET u == calls[c].user
         id == hist.nextEid
         row == [user_id |-> u, name |-> calls[c].data.name,
                 current_version_id |-> NULL,
                 created_at |-> calls[c].exp, updated_at |-> calls[c].exp]
     IN IF SameNameRows(u, calls[c].data.name) # {}
        THEN RolledBack(c, "Conflict") /\ UNCHANGED hist
        ELSE /\ calls' = [calls EXCEPT ![c].pc = "insertVersion",
                                       ![c].erow = WithId(row, id)]
             /\ hist' = [hist EXCEPT !.nextEid = @ + 1]
  /\ UNCHANGED <<now, environments, versions, envLock, sandboxes, logs,
                 containers, prov, collectors, sweeper>>

\* the row of version 1: data.image || null, data.dockerfile || null, the
\* defaults of the schema for the rest, no secrets
FirstVersion(e, data, at) ==
  [environment_id |-> e, version |-> 1, image |-> data.image,
   dockerfile |-> data.dockerfile, build_files |-> "{}", command |-> Nil,
   cpu |-> 2, memory |-> 512, ports |-> <<>>, env |-> "{}", secrets |-> << >>,
   mounts |-> "{}", created_at |-> at]

\* INSERT INTO environment_versions (environment_id, version, ...) VALUES ($1, 1, ...)
CreateEnvVersion(c) ==
  /\ At(c, "createEnv", "insertVersion")
  /\ calls' = [calls EXCEPT
       ![c].pc = "setCurrent",
       ![c].vrow = WithId(FirstVersion(calls[c].erow.id, calls[c].data, calls[c].exp),
                          hist.nextVid)]
  /\ hist' = [hist EXCEPT !.nextVid = @ + 1]
  /\ UNCHANGED <<now, environments, versions, envLock, sandboxes, logs,
                 containers, prov, collectors, sweeper>>

\* UPDATE environments SET current_version_id = $1 WHERE id = $2
CreateEnvSetCurrent(c) ==
  /\ At(c, "createEnv", "setCurrent")
  /\ calls' = [calls EXCEPT ![c].pc = "commit",
                            ![c].erow.current_version_id = calls[c].vrow.id]
  /\ UNCHANGED <<now, environments, versions, envLock, sandboxes, logs,
                 containers, prov, collectors, sweeper, hist>>

\* COMMIT: the two rows become visible together; the call returns them
CreateEnvCommit(c) ==
  /\ At(c, "createEnv", "commit")
  /\ LET erow == calls[c].erow
         vrow == calls[c].vrow
     IN /\ environments' = (erow.id :> RemoveKey(erow, "id")) @@ environments
        /\ versions' = (vrow.id :> RemoveKey(vrow, "id")) @@ versions
        /\ Finish(c, [kind |-> "created", env |-> erow.id, version |-> vrow.id])
  /\ UNCHANGED <<now, envLock, sandboxes, logs, containers, prov, collectors,
                 sweeper, hist>>

\* transaction(): a query of the callback throws (the connection is lost, the
\* statement fails); ROLLBACK, and the error is thrown again
CreateEnvRollback(c) ==
  /\ calls[c].op = "createEnv" /\ calls[c].pc \in InTransaction
  /\ RolledBack(c, "Error")
  /\ UNCHANGED <<now, environments, versions, envLock, sandboxes, logs,
                 containers, prov, collectors, sweeper, hist>>

(***************************************************************************)
(* SandboxService.syncStatus                                               *)
(***************************************************************************)
BeginSync(c, sb, max) ==
  /\ CanBegin(c, max)
  /\ calls' = [calls EXCEPT ![c] = NewCall("sync", "load", "system", sb, NULL, NULL, NoName, NULL)]
  /\ hist' = Begun
  /\ UNCHANGED <<now, environments, versions, envLock, sandboxes, logs,
                 containers, prov, collectors, sweeper>>

\* SELECT * FROM sandboxes WHERE id = $1; nothing to do without row or container id
SyncLoad(c) ==
  /\ At(c, "sync", "load")
  /\ LET sb == calls[c].sb IN
       IF sb \notin DOMAIN sandboxes \/ sandboxes[sb].container_id = NULL
       THEN Finish(c, [kind |-> "void"])
       ELSE calls' = [calls EXCEPT
              ![c].pc = "inspect", ![c].cid = sandboxes[sb].container_id,
              ![c].snap = <<sandboxes[sb].status, sandboxes[sb].phase>>]
  /\ UNCHANGED <<now, environments, versions, envLock, sandboxes, logs,
                 containers, prov, collectors, sweeper, hist>>

\* docker.getContainerInfo: null (404), or the container's state
getContainerInfo(k) ==
  IF k \in DOMAIN containers THEN containers[k].state ELSE "none"

SyncInspect(c) ==
  /\ At(c, "sync", "inspect")
  /\ calls' = [calls EXCEPT ![c].pc = "update", ![c].info = getContainerInfo(calls[c].cid)]
  /\ UNCHANGED <<now, environments, versions, envLock, sandboxes, logs,
                 containers, prov, collectors, sweeper, hist>>

\* variant that takes a dead container for a stopped one
SyncTargetDeadStopped(snap, info) ==
  IF info = "none" THEN <<"error", "failed">>
  ELSE IF info = "running" THEN <<"running", "healthy">>
  ELSE IF info \in {"exited", "dead"} THEN <<"stopped", "stopped">>
  ELSE snap

\* the (status, phase) syncStatus derives from the row it loaded and the inspection
SyncTarget(snap, info) ==
  IF info = "none" THEN <<"error", "failed">>
  ELSE IF info = "running" THEN <<"running", "healthy">>
  ELSE IF info = "exited" THEN <<"stopped", "stopped">>
  ELSE IF info = "dead" THEN <<"error", "failed">>
  ELSE snap

\* no container: UPDATE ... 'error', 'failed'; otherwise UPDATE when the pair differs
SyncUpdate(c) ==
  /\ At(c, "sync", "update")
  /\ LET t == SyncTarget(calls[c].snap, calls[c].info) IN
       sandboxes' = IF calls[c].info = "none" \/ t # calls[c].snap
                    THEN SetStatus(calls[c].sb, t[1], t[2])
                    ELSE sandboxes
  /\ Finish(c, [kind |-> "void"])
  /\ UNCHANGED <<now, environments, versions, envLock, logs, containers,
                 prov, collectors, sweeper, hist>>

(***************************************************************************)
(* SandboxService.expireSandboxes, run by the TTL interval                 *)
(***************************************************************************)
NoSweep == [pc |-> "idle", queue |-> {}, cur |-> NULL]

\* SELECT * FROM sandboxes WHERE expires_at < NOW() AND status NOT IN (...)
Due(s) ==
  /\ sandboxes[s].expires_at # NULL
  /\ sandboxes[s].expires_at < now

SweepSelected ==
  {s \in DOMAIN sandboxes : Due(s) /\ sandboxes[s].status \notin TerminalStatuses}

SweepSelect ==
  /\ sweeper.pc = "idle"
  /\ sweeper' = IF SweepSelected = {} THEN NoSweep
                ELSE [pc |-> "run", cur |-> NULL,
                      queue |-> {<<s, sandboxes[s].container_id>> : s \in SweepSelected}]
  /\ UNCHANGED <<now, environments, versions, envLock, sandboxes, logs,
                 containers, prov, collectors, calls, hist>>

SweepDrop(x) ==
  IF sweeper.queue = {x} THEN NoSweep
  ELSE [pc |-> "run", queue |-> sweeper.queue \ {x}, cur |-> NULL]

\* the next selected row has a container id: docker.stopContainer (a throw is
\* caught: the row is left as it is and the loop goes on)
SweepStop ==
  /\ sweeper.pc = "run"
  /\ \E x \in sweeper.queue :
       /\ x[2] # NULL
       /\ IF x[2] \in DOMAIN containers
          THEN /\ containers' = stopContainer(x[2])
               /\ sweeper' = [sweeper EXCEPT !.pc = "remove", !.cur = x]
          ELSE /\ sweeper' = SweepDrop(x)
               /\ UNCHANGED containers
  /\ UNCHANGED <<now, environments, versions, envLock, sandboxes, logs,
                 prov, collectors, calls, hist>>

\* docker.removeContainer(sandbox.container_id)
SweepRemove ==
  /\ sweeper.pc = "remove"
  /\ containers' = removeContainer(sweeper.cur[2])
  /\ sweeper' = [sweeper EXCEPT !.pc = "update"]
  /\ UNCHANGED <<now, environments, versions, envLock, sandboxes, logs,
                 prov, collectors, calls, hist>>

\* UPDATE ... 'expired', 'stopped', stopped_at = NOW() WHERE id = $1
SweepUpdate ==
  /\ \/ sweeper.pc = "update" /\ sweeper' = SweepDrop(sweeper.cur)
                              /\ sandboxes' = SetStatus(sweeper.cur[1], "expired", "stopped")
     \/ /\ sweeper.pc = "run"
        /\ \E x \in sweeper.queue :
             /\ x[2] = NULL
             /\ sweeper' = SweepDrop(x)
             /\ sandboxes' = SetStatus(x[1], "expired", "stopped")
  /\ UNCHANGED <<now, environments, versions, envLock, logs, containers,
                 prov, collectors, calls, hist>>

\* time passes
Tick ==
  /\ now < MaxTime
  /\ now' = now + 1
  /\ UNCHANGED <<environments, versions, envLock, sandboxes, logs, containers,
                 prov, collectors, calls, sweeper, hist>>

(***************************************************************************)
(* index.ts: the periodic jobs and shutdown(signal)                        *)
(***************************************************************************)
ForceExitDelay == 2    \* clock steps of the forced-exit timer (30 s)
LogRetention == 1      \* clock steps a log row is kept (7 days)
TimerOff == -1         \* no forced-exit timer is set
NotExited == -1        \* the exit code of a process that has not exited

ShutdownCalls == {c \in Callers : calls[c].op = "shutdown"}

\* a termination signal has been received
Signalled == ShutdownCalls # {}

\* process.exit has been called
Exited == \E c \in ShutdownCalls : calls[c].exit # NotExited

\* the sockets the HTTP server still holds: the upgraded log streams
OpenSockets == {i \in 1..Len(collectors) : collectors[i].kind = "viewer" /\ collectors[i].open}

\* the outcomes of a call to the container runtime
RuntimeOutcomes == {"ok", "throw", "hang"}

\* setInterval(..., 60000): expireSandboxes() begins, unless the interval is cleared
TtlCheck ==
  /\ ~Signalled /\ ~Exited
  /\ SweepSelect

\* variant: the interval keeps firing after the signal
TtlCheckUncleared == SweepSelect

\* cleanup_old_logs(): DELETE FROM sandbox_logs WHERE timestamp < NOW() - 7 days
cleanup_old_logs ==
  [s \in DOMAIN logs |-> SelectSeq(logs[s], LAMBDA r : ~(r.timestamp < now - LogRetention))]

\* setInterval(..., 24 h): SELECT cleanup_old_logs(), unless the interval is cleared
LogCleanup ==
  /\ ~Signalled /\ ~Exited
  /\ logs' = cleanup_old_logs
  /\ UNCHANGED <<now, environments, versions, envLock, sandboxes, containers,
                 prov, collectors, calls, sweeper, hist>>

\* process.on(SIGTERM | SIGINT): shutdown(signal) clears both intervals and
\* calls listSandboxContainers()
Signal(c, signal) ==
  /\ calls[c].pc = "idle" /\ ~Signalled
  /\ calls' = [calls EXCEPT ![c] =
       [op |-> "shutdown", pc |-> "list", seq |-> hist.ncalls + 1, signal |-> signal,
        listed |-> {}, todo |-> {}, cur |-> NULL, attempts |-> <<>>,
        timer |-> TimerOff, pool |-> "open", exit |-> NotExited]]
  /\ hist' = [hist EXCEPT !.ncalls = @ + 1]
  /\ UNCHANGED <<now, environments, versions, envLock, sandboxes, logs,
                 containers, prov, collectors, sweeper>>

\* the loop goes on to the next listed container, or to server.close
ShutdownNext(c, todo, attempts) ==
  calls' = [calls EXCEPT ![c].todo = todo, ![c].attempts = attempts, ![c].cur = NULL,
                         ![c].pc = IF todo = {} THEN "close" ELSE "stop"]

\* listSandboxContainers(): every container labelled sandbox-platform=true
listSandboxContainers == DOMAIN containers

\* const containers = await listSandboxContainers(), inside the outer try
ShutdownList(c) ==
  /\ At(c, "shutdown", "list") /\ ~Exited
  /\ \E o \in RuntimeOutcomes :
       CASE o = "ok" ->
              calls' = [calls EXCEPT ![c].listed = listSandboxContainers,
                                     ![c].todo = listSandboxContainers,
                                     ![c].pc = IF listSandboxContainers = {} THEN "close"
                                               ELSE "stop"]
         [] o = "throw" -> calls' = [calls EXCEPT ![c].pc = "close"]
         [] OTHER -> calls' = [calls EXCEPT ![c].pc = "hung"]
  /\ UNCHANGED <<now, environments, versions, envLock, sandboxes, logs,
                 containers, prov, collectors, sweeper, hist>>

\* await stopContainer(container.Id, 5); an error leaves the loop body
ShutdownStop(c) ==
  /\ At(c, "shutdown", "stop") /\ ~Exited
  /\ \E k \in calls[c].todo, o \in RuntimeOutcomes :
       LET tried == Append(calls[c].attempts, <<k, "stop">>) IN
       CASE o = "ok" /\ k \in DOMAIN containers ->
              /\ containers' = stopContainer(k)
              /\ calls' = [calls EXCEPT ![c].attempts = tried, ![c].cur = k,
                                        ![c].pc = "remove"]
         [] o = "hang" ->
              /\ calls' = [calls EXCEPT ![c].attempts = tried, ![c].cur = k,
                                        ![c].pc = "hung"]
              /\ UNCHANGED containers
         [] OTHER ->
              /\ ShutdownNext(c, calls[c].todo \ {k}, tried)
              /\ UNCHANGED containers
  /\ UNCHANGED <<now, environments, versions, envLock, sandboxes, logs, prov,
                 collectors, sweeper, hist>>

\* await removeContainer(container.Id)
ShutdownRemove(c) ==
  /\ At(c, "shutdown", "remove") /\ ~Exited
  /\ \E o \in RuntimeOutcomes :
       LET k == calls[c].cur
           tried == Append(calls[c].attempts, <<k, "remove">>) IN
       CASE o = "ok" ->
              /\ containers' = removeContainer(k)
              /\ ShutdownNext(c, calls[c].todo \ {k}, tried)
         [] o = "hang" ->
              /\ calls' = [calls EXCEPT ![c].attempts = tried, ![c].pc = "hung"]
              /\ UNCHANGED containers
         [] OTHER ->
              /\ ShutdownNext(c, calls[c].todo \ {k}, tried)
              /\ UNCHANGED containers
  /\ UNCHANGED <<now, environments, versions, envLock, sandboxes, logs, prov,
                 collectors, sweeper, hist>>

\* server.close(callback); setTimeout(() => process.exit(1), 30000)
ShutdownClose(c) ==
  /\ At(c, "shutdown", "close") /\ ~Exited
  /\ calls' = [calls EXCEPT ![c].pc = "closing", ![c].timer = ForceExitDelay]
  /\ UNCHANGED <<now, environments, versions, envLock, sandboxes, logs,
                 containers, prov, collectors, sweeper, hist>>

\* variant: the timer is set as shutdown begins
ShutdownCloseNoTimer(c) ==
  /\ At(c, "shutdown", "close") /\ ~Exited
  /\ calls' = [calls EXCEPT ![c].pc = "closing"]
  /\ UNCHANGED <<now, environments, versions, envLock, sandboxes, logs,
                 containers, prov, collectors, sweeper, hist>>

\* the server's close callback: it runs once every connection has ended
ServerClosed(c) ==
  /\ At(c, "shutdown", "closing") /\ ~Exited
  /\ OpenSockets = {}
  /\ calls' = [calls EXCEPT ![c].pc = "closeDb"]
  /\ UNCHANGED <<now, environments, versions, envLock, sandboxes, logs,
                 containers, prov, collectors, sweeper, hist>>

\* await closeDb()
CloseDb(c) ==
  /\ At(c, "shutdown", "closeDb") /\ ~Exited
  /\ calls' = [calls EXCEPT ![c].pc = "exit", ![c].pool = "closed"]
  /\ UNCHANGED <<now, environments, versions, envLock, sandboxes, logs,
                 containers, prov, collectors, sweeper, hist>>

\* process.exit(0)
ExitClean(c) ==
  /\ At(c, "shutdown", "exit") /\ ~Exited
  /\ calls' = [calls EXCEPT ![c].pc = "exited", ![c].exit = 0]
  /\ UNCHANGED <<now, environments, versions, envLock, sandboxes, logs,
                 containers, prov, collectors, sweeper, hist>>

\* time passes on the forced-exit timer, while the server waits for its
\* connections to end
TimerElapse(c) ==
  /\ c \in ShutdownCalls /\ calls[c].timer > 0 /\ ~Exited
  /\ calls[c].pc = "closing" /\ OpenSockets # {}
  /\ calls' = [calls EXCEPT ![c].timer = @ - 1]
  /\ UNCHANGED <<now, environments, versions, envLock, sandboxes, logs,
                 containers, prov, collectors, sweeper, hist>>

\* the timer's callback: process.exit(1)
ForceExit(c) ==
  /\ c \in ShutdownCalls /\ calls[c].timer = 0 /\ ~Exited
  /\ calls' = [calls EXCEPT ![c].pc = "exited", ![c].exit = 1]
  /\ UNCHANGED <<now, environments, versions, envLock, sandboxes, logs,
                 containers, prov, collectors, sweeper, hist>>

ShutdownStep(c) ==
  \/ ShutdownList(c) \/ ShutdownStop(c) \/ ShutdownRemove(c) \/ ShutdownClose(c)
  \/ ServerClosed(c) \/ CloseDb(c) \/ ExitClean(c)

(***************************************************************************)
(* SecretsService.encrypt / decrypt on bytes: UTF-8, nacl.secretbox with a *)
(* random nonce, nonce + box in base64.  Lengths are scaled (nonce 24 -> 2,*)
(* authenticator 16 -> 2 bytes) so that nonce + authenticator keeps the    *)
(* remainder 1 modulo 3 that 40 bytes have.  The box stands in for         *)
(* XSalsa20-Poly1305: its authenticator changes with every single-bit      *)
(* change of nonce or box, with the length of the box and with the key.    *)
(***************************************************************************)
nonceLength == 2
overheadLength == 2
MaxPlain == 2          \* characters of a plaintext

\* the characters of a plaintext: ASCII, two UTF-8 bytes, a lone surrogate
PlainChars == {"a", "e-acute", "uD800"}

RECURSIVE SeqsUpTo(_, _)
SeqsUpTo(S, n) ==
  IF n = 0 THEN {<<>>}
  ELSE LET shorter == SeqsUpTo(S, n - 1) IN
       shorter \cup {Append(q, x) : q \in {r \in shorter : Len(r) = n - 1}, x \in S}

Plaintexts == SeqsUpTo(PlainChars, MaxPlain)

MasterKeys == {11, 94}
SecretNonces == {<<0, 0>>, <<7, 200>>, <<255, 1>>}

BitAt(v, b) == (v \div (2 ^ b)) % 2
FlipBit(v, b) == IF BitAt(v, b) = 1 THEN v - 2 ^ b ELSE v + 2 ^ b

RECURSIVE XorFrom(_, _, _)
XorFrom(a, b, i) ==
  IF i > 7 THEN 0
  ELSE ((BitAt(a, i) + BitAt(b, i)) % 2) * 2 ^ i + XorFrom(a, b, i + 1)
Xor(a, b) == XorFrom(a, b, 0)

NoBytes == <<-1>>         \* in place of bytes: null, or an exception thrown
NoString == <<"invalid">> \* in place of a string: an exception thrown

\* is the string well-formed UTF-16 (encodeURIComponent throws URIError if not)
WellFormed(x) == \A i \in 1..Len(x) : x[i] # "uD800"

\* tweetnacl-util decodeUTF8: the UTF-8 bytes of a string
RECURSIVE decodeUTF8(_)
decodeUTF8(x) ==
  IF x = <<>> THEN <<>>
  ELSE (IF Head(x) = "a" THEN <<97>> ELSE <<195, 169>>) \o decodeUTF8(Tail(x))

\* tweetnacl-util encodeUTF8: the string of UTF-8 bytes, or NoString (URIError)
RECURSIVE encodeUTF8(_)
encodeUTF8(b) ==
  IF b = <<>> THEN <<>>
  ELSE IF Head(b) < 128
       THEN LET rest == encodeUTF8(Tail(b)) IN
            IF rest = NoString THEN NoString
            ELSE <<IF Head(b) = 97 THEN "a" ELSE "other">> \o rest
  ELSE IF Len(b) >= 2 /\ Head(b) = 195 /\ b[2] = 169
       THEN LET rest == encodeUTF8(Tail(Tail(b))) IN
            IF rest = NoString THEN NoString ELSE <<"e-acute">> \o rest
  ELSE NoString

RECURSIVE WeightedSum(_, _)
WeightedSum(b, i) ==
  IF i > Len(b) THEN 0 ELSE ((2 * i + 1) * b[i] + WeightedSum(b, i + 1)) % 256

\* the authenticator of a box under key k and nonce n
authenticator(c, n, k) == <<(k + WeightedSum(n \o c, 1)) % 256, (k + Len(c)) % 256>>

keystream(n, k, i) == (k + n[1] + 3 * n[2] + 5 * i) % 256

\* nacl.secretbox(message, nonce, key): the authenticator, then the ciphertext
secretbox(m, n, k) ==
  LET c == [i \in 1..Len(m) |-> Xor(m[i], keystream(n, k, i))] IN
  authenticator(c, n, k) \o c

\* nacl.secretbox.open(box, nonce, key): the message, or NoBytes (null)
secretbox_open(box, n, k) ==
  IF Len(box) < overheadLength \/ Len(n) # nonceLength THEN NoBytes
  ELSE LET c == SubSeq(box, overheadLength + 1, Len(box)) IN
       IF SubSeq(box, 1, overheadLength) # authenticator(c, n, k) THEN NoBytes
       ELSE [i \in 1..Len(c) |-> Xor(c[i], keystream(n, k, i))]

\* the character code of a base64 digit
B64Char(v) ==
  IF v < 26 THEN 65 + v
  ELSE IF v < 52 THEN 97 + (v - 26)
  ELSE IF v < 62 THEN 48 + (v - 52)
  ELSE IF v = 62 THEN 43 ELSE 47

IsB64Char(ch) ==
  \/ ch \in 65..90 \/ ch \in 97..122 \/ ch \in 48..57 \/ ch = 43 \/ ch = 47

B64Val(ch) ==
  IF ch \in 65..90 THEN ch - 65
  ELSE IF ch \in 97..122 THEN ch - 97 + 26
  ELSE IF ch \in 48..57 THEN ch - 48 + 52
  ELSE IF ch = 43 THEN 62 ELSE 63

Pad == 61   \* "="

\* encodeBase64: three bytes to four characters, the tail padded
RECURSIVE encodeBase64(_)
encodeBase64(b) ==
  IF b = <<>> THEN <<>>
  ELSE IF Len(b) = 1
       THEN <<B64Char(b[1] \div 4), B64Char((b[1] % 4) * 16), Pad, Pad>>
  ELSE IF Len(b) = 2
       THEN <<B64Char(b[1] \div 4), B64Char((b[1] % 4) * 16 + b[2] \div 16),
              B64Char((b[2] % 16) * 4), Pad>>
  ELSE <<B64Char(b[1] \div 4), B64Char((b[1] % 4) * 16 + b[2] \div 16),
         B64Char((b[2] % 16) * 4 + b[3] \div 64), B64Char(b[3] % 64)>>
       \o encodeBase64(SubSeq(b, 4, Len(b)))

\* validateBase64: /^(?:[A-Za-z0-9+\/]{2}[A-Za-z0-9+\/]{2})*(?:[A-Za-z0-9+\/]{2}==|[A-Za-z0-9+\/]{3}=)?$/
validateBase64(t) ==
  /\ Len(t) % 4 = 0
  /\ \A i \in 1..Len(t) :
       \/ IsB64Char(t[i])
       \/ /\ t[i] = Pad
          /\ \/ i = Len(t)
             \/ i = Len(t) - 1 /\ t[Len(t)] = Pad

\* Buffer.from(s, "base64"): the bits of the last digit that belong to no
\* byte are dropped
RECURSIVE base64Bytes(_)
base64Bytes(t) ==
  IF t = <<>> THEN <<>>
  ELSE LET v == [i \in 1..4 |-> IF t[i] = Pad THEN 0 ELSE B64Val(t[i])]
           b1 == v[1] * 4 + v[2] \div 16
           b2 == (v[2] % 16) * 16 + v[3] \div 4
           b3 == (v[3] % 4) * 64 + v[4]
       IN (IF t[3] = Pad THEN <<b1>>
           ELSE IF t[4] = Pad THEN <<b1, b2>>
           ELSE <<b1, b2, b3>>) \o base64Bytes(SubSeq(t, 5, Len(t)))

\* tweetnacl-util decodeBase64: the bytes, or NoBytes (TypeError)
decodeBase64(t) == IF validateBase64(t) THEN base64Bytes(t) ELSE NoBytes

\* variant: a decoder that takes canonical base64 only
decodeBase64Strict(t) ==
  IF validateBase64(t) /\ encodeBase64(base64Bytes(t)) = t THEN base64Bytes(t) ELSE NoBytes

\* encrypt(plaintext) with the nonce drawn: the stored string, or an error
SecretsEncrypt(plaintext, nonce, masterKey) ==
  IF ~WellFormed(plaintext) THEN [kind |-> "error", error |-> "URIError"]
  ELSE [kind |-> "ok",
        value |-> encodeBase64(nonce \o secretbox(decodeUTF8(plaintext), nonce, masterKey))]

FailedToDecrypt == [kind |-> "error", error |-> "Failed to decrypt secret"]

\* decrypt(encrypted): the plaintext, or Error("Failed to decrypt secret")
SecretsDecrypt(encrypted, masterKey) ==
  LET combined == decodeBase64(encrypted) IN
  IF combined = NoBytes THEN FailedToDecrypt
  ELSE LET nonce == SubSeq(combined, 1, Min({nonceLength, Len(combined)}))
           ciphertext == SubSeq(combined, nonceLength + 1, Len(combined))
           plaintext == secretbox_open(ciphertext, nonce, masterKey)
       IN IF plaintext = NoBytes THEN FailedToDecrypt
          ELSE IF encodeUTF8(plaintext) = NoString THEN FailedToDecrypt
          ELSE [kind |-> "ok", value |-> encodeUTF8(plaintext)]

SecretCalls == {c \in Callers : calls[c].op = "secret"}

\* the nonces drawn so far: nacl.randomBytes does not repeat one
DrawnNonces == {calls[c].nonce : c \in SecretCalls}

\* a caller is about to encrypt plaintext x under the master key
BeginSecret(c, x, masterKey) ==
  /\ calls[c].pc = "idle"
  /\ calls' = [calls EXCEPT ![c] =
       [op |-> "secret", pc |-> "encrypt", seq |-> hist.ncalls + 1, x |-> x,
        key |-> masterKey, nonce |-> <<>>, stored |-> <<>>, original |-> <<>>,
        tampered |-> FALSE, dkey |-> masterKey, res |-> [kind |-> "none"]]]
  /\ hist' = [hist EXCEPT !.ncalls = @ + 1]
  /\ UNCHANGED <<now, environments, versions, envLock, sandboxes, logs,
                 containers, prov, collectors, sweeper>>

\* encrypt(x): the ciphertext is stored, or the call throws
SecretEncrypt(c) ==
  /\ At(c, "secret", "encrypt")
  /\ \E nonce \in SecretNonces \ DrawnNonces :
       LET r == SecretsEncrypt(calls[c].x, nonce, calls[c].key) IN
       calls' = [calls EXCEPT ![c] =
         IF r.kind = "ok"
         THEN [calls[c] EXCEPT !.pc = "stored", !.nonce = nonce, !.stored = r.value,
                               !.original = r.value]
         ELSE [calls[c] EXCEPT !.pc = "done", !.nonce = nonce, !.res = r]]
  /\ UNCHANGED <<now, environments, versions, envLock, sandboxes, logs,
                 containers, prov, collectors, sweeper, hist>>

\* one bit of one character of the stored string is flipped
SecretTamper(c, i, b) ==
  /\ At(c, "secret", "stored") /\ ~calls[c].tampered
  /\ i \in 1..Len(calls[c].stored)
  /\ calls' = [calls EXCEPT ![c].stored[i] = FlipBit(@, b), ![c].tampered = TRUE]
  /\ UNCHANGED <<now, environments, versions, envLock, sandboxes, logs,
                 containers, prov, collectors, sweeper, hist>>

\* decrypt(stored) by a service whose master key is masterKey
SecretDecrypt(c, masterKey) ==
  /\ At(c, "secret", "stored")
  /\ calls' = [calls EXCEPT ![c].pc = "done", ![c].dkey = masterKey,
                            ![c].res = SecretsDecrypt(calls[c].stored, masterKey)]
  /\ UNCHANGED <<now, environments, versions, envLock, sandboxes, logs,
                 containers, prov, collectors, sweeper, hist>>

(***************************************************************************)
(* Initial states: the store after migrate(), two users each with one      *)
(* environment, and pre sandboxes of user A already provisioned            *)
(***************************************************************************)
VersionRow(e, n, image, ports) ==
  [environment_id |-> e, version |-> n, image |-> image, dockerfile |-> Nil,
   build_files |-> "{}", command |-> Nil, cpu |-> 2, memory |-> 512,
   ports |-> ports, env |-> "{}", secrets |-> << >>, mounts |-> "{}",
   created_at |-> 0]

EnvRow(u, name, v, t) ==
  [user_id |-> u, name |-> name, current_version_id |-> v,
   created_at |-> t, updated_at |-> t]

PreRow(i) ==
  [user_id |-> "A", environment_id |-> 1, environment_version_id |-> 1,
   name |-> <<"pre", i>>, container_id |-> i, status |-> "running",
   phase |-> "healthy", ports |-> <<>>, expires_at |-> NULL]

\* the clock, the environments of A and B, no call, the sweeper between two runs
InitStoreWith(secrets) ==
  /\ now = 0
  /\ environments = (1 :> EnvRow("A", "envA", 1, 0)) @@ (2 :> EnvRow("B", "envB", 2, 0))
  /\ versions = (1 :> [VersionRow(1, 1, "nginx", <<[container |-> 80, host |-> 48080]>>)
                         EXCEPT !.secrets = secrets])
                @@ (2 :> VersionRow(2, 1, "redis", <<>>))
  /\ envLock = [e \in {} |-> NULL]
  /\ calls = [c \in Callers |-> Idle]
  /\ sweeper = NoSweep

InitStore == InitStoreWith(<< >>)

\* what has happened so far: pre sandboxes were created and provisioned
InitHist(pre) ==
  [ncalls |-> 0, nextId |-> pre + 1, nextName |-> 1, nextVid |-> 4, nextEid |-> 3, audit |-> <<>>, execs |-> <<>>,
   inserted |-> 1..pre,
   provStarted |-> [s \in SandboxIds |-> IF s <= pre THEN 1 ELSE 0],
   created |-> [s \in SandboxIds |-> IF s <= pre THEN 1 ELSE 0],
   collectorsStarted |-> [s \in SandboxIds |-> IF s <= pre THEN 1 ELSE 0],
   destroyed |-> {}, out |-> [s \in SandboxIds |-> <<>>]]

\* pre sandboxes of A, provisioned and running
InitRuntimeWith(pre, ports) ==
  /\ sandboxes = [i \in 1..pre |-> [PreRow(i) EXCEPT !.ports = ports]]
  /\ logs = [s \in SandboxIds |-> <<>>]
  /\ containers = [i \in 1..pre |-> [state |-> "running", ports |-> ports, emitted |-> 0,
                                     out |-> <<>>]]
  /\ prov = [i \in {} |-> NULL]
  /\ collectors = [i \in 1..pre |->
                     [sb |-> i, cid |-> i, pos |-> 0, kind |-> "collector", open |-> TRUE]]

InitSandboxesWith(pre, ports) == InitRuntimeWith(pre, ports) /\ hist = InitHist(pre)

InitSandboxes(pre) == InitSandboxesWith(pre, <<>>)

InitWith(pre) == InitStore /\ InitSandboxes(pre)

(***************************************************************************)
(* SpecCreate: createSandbox and replicateSandbox calls of user A and      *)
(* their provisioners, with MAX_SANDBOXES_PER_USER - 2 or - 1 sandboxes of *)
(* A already running                                                       *)
(***************************************************************************)
InitCreate ==
  \E pre \in {MAX_SANDBOXES_PER_USER - 2, MAX_SANDBOXES_PER_USER - 1} : InitWith(pre)

\* createSandbox inputs (environmentId, environmentVersionId, name): A's
\* environment, B's environment, a version id that names no row
CreateInputs ==
  {<<1, NULL, <<"n", 1>>>>, <<2, NULL, <<"n", 1>>>>, <<1, 3, <<"n", 1>>>>}

\* the sandbox a replica is asked of: the last one that is there at the start,
\* or the first one created during the run
ReplicaSources == {MAX_SANDBOXES_PER_USER - 1}

CreateStep(c) ==
  \/ CreateQuota(c) \/ CreateLookup(c) \/ CreateInsert(c) \/ CreateGet(c)

ReplicateStep(c) == ReplicateLoad(c) \/ ReplicateProbe(c)

NextCreate ==
  \/ \E c \in Callers, a \in CreateInputs :
       BeginCreate(c, "A", a[1], a[2], a[3], NULL, MaxCalls)
  \/ \E c \in Callers, sb \in ReplicaSources, name \in {NoName, <<"n", 1>>} :
       BeginReplicate(c, "A", sb, name, MaxCalls)
  \/ \E c \in Callers : CreateStep(c) \/ ReplicateStep(c)
  \/ \E s \in SandboxIds : ProvStep(s)

SpecCreate == InitCreate /\ [][NextCreate]_vars

(***************************************************************************)
(* SpecLife: one sandbox of user A whose createSandbox call has just       *)
(* returned (row pending/creating, provisioner started), A's start, stop,  *)
(* restart and destroy calls on it, syncStatus, the container's own exit   *)
(* and output, and the log collector                                       *)
(***************************************************************************)
\* the state right after createSandbox(A, {environmentId: 1, name, ttlSeconds})
\* has inserted sandbox 1 and started its provisioner
InitCreated(exp) ==
  /\ InitStore
  /\ sandboxes = (1 :> [user_id |-> "A", environment_id |-> 1,
                        environment_version_id |-> 1, name |-> <<"n", 1>>,
                        container_id |-> NULL, status |-> "pending",
                        phase |-> "creating", ports |-> versions[1].ports,
                        expires_at |-> exp])
  /\ logs = [s \in SandboxIds |-> <<>>]
  /\ containers = [i \in {} |-> NULL]
  /\ prov = (1 :> [pc |-> "load", vid |-> 1, ports |-> <<>>, healthy |-> FALSE])
  /\ collectors = <<>>
  /\ hist = [ncalls |-> 0, nextId |-> 2, nextName |-> 1, nextVid |-> 4, nextEid |-> 3, audit |-> <<>>, execs |-> <<>>,
             inserted |-> {1},
             provStarted |-> [s \in SandboxIds |-> IF s = 1 THEN 1 ELSE 0],
             created |-> [s \in SandboxIds |-> 0],
             collectorsStarted |-> [s \in SandboxIds |-> 0],
             destroyed |-> {}, out |-> [s \in SandboxIds |-> <<>>]]

InitLife == InitCreated(NULL)

StartStep(c) == StartLoad(c) \/ StartRuntime(c) \/ StartUpdate(c)

StopStep(c) == StopLoad(c) \/ StopRuntime(c) \/ StopUpdate(c)

RestartStep(c) == RestartLoad(c) \/ RestartRuntime(c) \/ RestartUpdate(c)

DestroyStep(c) == DestroyLoad(c) \/ DestroyRemove(c) \/ DestroyDelete(c)

SyncStep(c) == SyncLoad(c) \/ SyncInspect(c) \/ SyncUpdate(c)

NextLife ==
  \/ \E c \in Callers, op \in {"start", "stop", "restart", "destroy"} :
       BeginOp(c, op, "A", 1, MaxCalls)
  \/ \E c \in Callers : BeginSync(c, 1, MaxCalls)
  \/ \E c \in Callers :
       StartStep(c) \/ StopStep(c) \/ RestartStep(c) \/ DestroyStep(c)
       \/ SyncStep(c) \/ OpGet(c)
  \/ ProvStep(1)
  \/ ContainerExit(1) \/ ContainerEmit(1)
  \/ \E i \in 1..2 : CollectorStep(i)

SpecLife == InitLife /\ [][NextLife]_vars

(***************************************************************************)
(* SpecIso: sandbox 1 of user A is running; A and B call the operations of *)
(* one sandbox on it (B also replicateSandbox and a WebSocket connection)  *)
(***************************************************************************)
InitIso == InitWith(1)

ReadStep(c) ==
  \/ GetLoad(c) \/ LogsLoad(c) \/ LogsRead(c) \/ ContainerIdLoad(c)
  \/ WsConnect(c) \/ WsHistory(c)

NextIso ==
  \/ \E c \in Callers, u \in Users,
        op \in {"get", "start", "stop", "restart", "destroy", "logs", "cid", "ws"} :
       BeginOp(c, op, u, 1, MaxCalls)
  \/ \E c \in Callers : BeginReplicate(c, "B", 1, NoName, MaxCalls)
  \/ \E c \in Callers :
       StartStep(c) \/ StopStep(c) \/ RestartStep(c) \/ DestroyStep(c)
       \/ OpGet(c) \/ ReadStep(c) \/ ReplicateLoad(c)
  \/ ContainerEmit(1)
  \/ \E i \in 1..(MaxCalls + 1) : CollectorStep(i) \/ ViewerStep(i)

SpecIso == InitIso /\ [][NextIso]_vars

(***************************************************************************)
(* SpecEnv: the environment API, calls of A and B on A's environment, whose *)
(* current version has no secret or one set by an earlier setSecret         *)
(***************************************************************************)
InitEnv ==
  /\ \E secrets \in {<< >>, "K1" :> encrypt("s1", "r1")} : InitStoreWith(secrets)
  /\ InitSandboxes(0)

Images == {Nil, "alpine"}

UpdateStep(c) == UpdateLock(c) \/ UpdateRead(c) \/ UpdateCommit(c) \/ PutRespond(c)

SecretStep(c) ==
  \/ SecretLock(c)
  \/ SetSecretRead(c) \/ SetSecretCommit(c)
  \/ DeleteSecretRead(c) \/ DeleteSecretCommit(c)

EnvReadStep(c) ==
  GetEnvLoad(c) \/ GetEnvVersion(c) \/ ListEnvLoad(c) \/ ListEnvVersion(c)

NextEnv ==
  \/ \E c \in Callers, op \in {"getEnv", "listEnv", "deleteEnv"}, u \in Users :
       BeginEnvOp(c, op, u, 1, Nil, Nil, Nil, MaxEnvCalls)
  \/ \E c \in Callers, u \in Users, image \in Images :
       BeginEnvOp(c, "update", u, 1, Nil, Nil, image, MaxEnvCalls)
  \/ \E c \in Callers, key \in SecretKeys, value \in SecretValues :
       BeginEnvOp(c, "setSecret", "A", 1, key, value, Nil, MaxEnvCalls)
  \/ \E c \in Callers, key \in SecretKeys :
       BeginEnvOp(c, "deleteSecret", "A", 1, key, Nil, Nil, MaxEnvCalls)
  \/ \E c \in Callers :
       UpdateStep(c) \/ SecretStep(c) \/ EnvReadStep(c) \/ DeleteEnvironment(c)
  \/ Tick

SpecEnv == InitEnv /\ [][NextEnv]_vars

(***************************************************************************)
(* SpecTTL: sandbox 1 of user A has just been created with a ttl; its       *)
(* provisioner, the clock, the TTL sweeper (one run at a time), the         *)
(* container's own exit and A's stopSandbox calls. The interval keeps the   *)
(* sweeper running, and every task that can take its next step takes it.    *)
(***************************************************************************)
InitTTL == InitCreated(1)

SweepStep == SweepSelect \/ SweepStop \/ SweepRemove \/ SweepUpdate

NextTTL ==
  \/ Tick
  \/ SweepStep
  \/ ProvStep(1)
  \/ ContainerExit(1)
  \/ \E c \in Callers : BeginOp(c, "stop", "A", 1, MaxCalls)
  \/ \E c \in Callers : StopStep(c) \/ OpGet(c)

SpecTTL ==
  /\ InitTTL /\ [][NextTTL]_vars
  /\ WF_vars(Tick) /\ WF_vars(SweepStep) /\ WF_vars(ProvStep(1))
  /\ \A c \in Callers : WF_vars(StopStep(c) \/ OpGet(c))

(***************************************************************************)
(* SpecLogs: sandbox 1 of user A is running and its log collector follows   *)
(* the container; the container writes and may exit, A opens log sockets,   *)
(* closes them, reads the logs, and stops and starts the sandbox            *)
(***************************************************************************)
InitLogs == InitWith(1)

LogTasks == 1..(MaxCalls + 1)

NextLogs ==
  \/ \E c \in Callers, op \in {"ws", "logs", "stop", "start"} :
       BeginOp(c, op, "A", 1, MaxCalls)
  \/ \E c \in Callers :
       \/ WsConnect(c) \/ WsHistory(c) \/ LogsLoad(c) \/ LogsRead(c)
       \/ StopStep(c) \/ StartStep(c) \/ OpGet(c)
  \/ ContainerEmit(1) \/ ContainerExit(1)
  \/ \E i \in LogTasks : CollectorStep(i) \/ ViewerStep(i) \/ WsClose(i)

SpecLogs == InitLogs /\ [][NextLogs]_vars

(***************************************************************************)
(* SpecPorts: sandbox 1 of user A runs with the ports of its version bound; *)
(* A replicates it, and the replicas, without port overrides; the replicas  *)
(* are provisioned                                                          *)
(***************************************************************************)
InitPorts ==
  /\ InitStore
  /\ InitSandboxesWith(1, <<[container |-> 80, host |-> 48080]>>)

NextPorts ==
  \/ \E c \in Callers, sb \in 1..MaxCalls :
       BeginReplicate(c, "A", sb, NoName, MaxCalls)
  \/ \E c \in Callers : ReplicateStep(c) \/ CreateStep(c)
  \/ \E s \in 2..(MaxCalls + 1) : ProvStep(s)

SpecPorts == InitPorts /\ [][NextPorts]_vars

(***************************************************************************)
(* SpecEnvCreate: createEnvironment, updateEnvironment and deleteEnvironment *)
(* by A, who has one environment, and by B, who has                         *)
(* MAX_ENVIRONMENTS_PER_USER of them                                        *)
(***************************************************************************)
MaxCreateCalls == 3

FirstNewEnv == MAX_ENVIRONMENTS_PER_USER + 2

BNames == <<"b1", "b2", "b3", "b4", "b5">>

InitEnvCreate ==
  /\ now = 0
  /\ environments =
       [e \in 1..(FirstNewEnv - 1) |->
          IF e = 1 THEN EnvRow("A", "envA", 1, 0) ELSE EnvRow("B", BNames[e - 1], e, 0)]
  /\ versions =
       [v \in 1..(FirstNewEnv - 1) |->
          IF v = 1 THEN VersionRow(1, 1, "nginx", <<>>) ELSE VersionRow(v, 1, "redis", <<>>)]
  /\ envLock = [e \in {} |-> NULL]
  /\ calls = [c \in Callers |-> Idle]
  /\ sweeper = NoSweep
  /\ InitRuntimeWith(0, <<>>)
  /\ hist = [InitHist(0) EXCEPT !.nextVid = FirstNewEnv, !.nextEid = FirstNewEnv]

\* the request bodies: a new name or the name A has already, with an image, a
\* Dockerfile, both or neither
CreateData ==
  [name : {"envA", "envN"}, image : {Nil, "nginx"}, dockerfile : {Nil, "FROM"}]

CreateEnvStep(c) ==
  \/ CreateEnvCount(c) \/ CreateEnvInsert(c) \/ CreateEnvVersion(c)
  \/ CreateEnvSetCurrent(c) \/ CreateEnvCommit(c) \/ CreateEnvRollback(c)

NextEnvCreate ==
  \/ \E c \in Callers, u \in Users, data \in CreateData :
       BeginCreateEnvironment(c, u, data, MaxCreateCalls)
  \/ \E c \in Callers, e \in {1, FirstNewEnv}, image \in Images :
       BeginEnvOp(c, "update", "A", e, Nil, Nil, image, MaxCreateCalls)
  \/ \E c \in Callers, e \in {1, FirstNewEnv} :
       BeginEnvOp(c, "deleteEnv", "A", e, Nil, Nil, Nil, MaxCreateCalls)
  \/ \E c \in Callers : CreateEnvStep(c) \/ UpdateStep(c) \/ DeleteEnvironment(c)

SpecEnvCreate == InitEnvCreate /\ [][NextEnvCreate]_vars

(***************************************************************************)
(* SpecEnvDelete: deleteEnvironment on A's environment while its one       *)
(* sandbox is provisioned, runs, is stopped or is destroyed                *)
(***************************************************************************)
InitEnvDelete == InitCreated(NULL)

NextEnvDelete ==
  \/ \E c \in Callers, u \in Users :
       BeginEnvOp(c, "deleteEnv", u, 1, Nil, Nil, Nil, MaxCalls)
  \/ \E c \in Callers, op \in {"stop", "destroy"} : BeginOp(c, op, "A", 1, MaxCalls)
  \/ \E c \in Callers :
       DeleteEnvironment(c) \/ StopStep(c) \/ DestroyStep(c) \/ OpGet(c)
  \/ ProvStep(1)
  \/ ContainerExit(1) \/ ContainerEmit(1)
  \/ CollectorStep(1)

SpecEnvDelete == InitEnvDelete /\ [][NextEnvDelete]_vars

(***************************************************************************)
(* SpecAudit: POST /sandboxes by A and B, with a name or without, and the  *)
(* provisioners of the sandboxes inserted                                  *)
(***************************************************************************)
InitAudit == InitWith(0)

NextAudit ==
  \/ \E c \in Callers, u \in Users, name \in {NoName, <<"n", 1>>} :
       ~AuditDue(c) /\ BeginCreate(c, u, 1, NULL, name, NULL, MaxCalls)
  \/ \E c \in Callers : CreateStep(c) \/ PostSandboxesAudit(c)
  \/ \E s \in 1..MaxCalls : ProvStep(s)

SpecAudit == InitAudit /\ [][NextAudit]_vars

(***************************************************************************)
(* SpecReplay: sandbox 1 of A runs and has HistoryLimit - 1 or + 1         *)
(* log rows stored earlier; A opens log sockets and closes them, the        *)
(* container writes, and A stops the sandbox                                *)
(***************************************************************************)
\* the rows stored before: one per instant, the last one at instant 0
StoredBefore(n) ==
  [j \in 1..n |-> [timestamp |-> j - n, type |-> "stdout", text |-> <<"o", "k">>]]

InitReplay ==
  /\ InitStore
  /\ sandboxes = (1 :> PreRow(1))
  /\ \E n \in {HistoryLimit - 1, HistoryLimit + 1} :
       logs = [s \in SandboxIds |-> IF s = 1 THEN StoredBefore(n) ELSE <<>>]
  /\ containers = (1 :> [state |-> "running", ports |-> <<>>, emitted |-> 0,
                         out |-> <<>>])
  /\ prov = [i \in {} |-> NULL]
  /\ collectors = <<[sb |-> 1, cid |-> 1, pos |-> 0, kind |-> "collector",
                     open |-> TRUE]>>
  /\ hist = InitHist(1)

NextReplay ==
  \/ \E c \in Callers, op \in {"ws", "stop"} : BeginOp(c, op, "A", 1, MaxCalls)
  \/ \E c \in Callers : WsConnect(c) \/ WsHistory(c) \/ StopStep(c) \/ OpGet(c)
  \/ ContainerEmit(1)
  \/ \E i \in LogTasks : CollectorStep(i) \/ ViewerStep(i) \/ WsClose(i)

SpecReplay == InitReplay /\ [][NextReplay]_vars

(***************************************************************************)
(* SpecTerminal: terminal sockets with any token on A's sandbox 1 and on a *)
(* sandbox that does not exist, while sandbox 1 is provisioned, stopped    *)
(* and destroyed                                                           *)
(***************************************************************************)
InitTerminal == InitCreated(NULL)

TerminalStep(c) == TerminalAuth(c) \/ TerminalConnect(c) \/ TerminalExec(c)

NextTerminal ==
  \/ \E c \in Callers, token \in Tokens, sb \in 1..2 :
       BeginTerminal(c, token, sb, MaxCalls)
  \/ \E c \in Callers, op \in {"stop", "destroy"} : BeginOp(c, op, "A", 1, MaxCalls)
  \/ \E c \in Callers : TerminalStep(c) \/ StopStep(c) \/ DestroyStep(c) \/ OpGet(c)
  \/ ProvStep(1)
  \/ ContainerExit(1)

SpecTerminal == InitTerminal /\ [][NextTerminal]_vars

(***************************************************************************)
(* SpecShutdown: two sandboxes of user A are running, the first one past   *)
(* its expiry as the clock moves, a log stream may be open; the periodic   *)
(* jobs run, the process receives a termination signal and shuts down      *)
(***************************************************************************)
InitShutdown ==
  /\ InitStore
  /\ sandboxes = [i \in 1..2 |-> [PreRow(i) EXCEPT !.expires_at = IF i = 1 THEN 1 ELSE NULL]]
  /\ logs = [s \in SandboxIds |-> IF s = 1 THEN StoredBefore(1) ELSE <<>>]
  /\ containers = [i \in 1..2 |-> [state |-> "running", ports |-> <<>>, emitted |-> 0,
                                   out |-> <<>>]]
  /\ prov = [i \in {} |-> NULL]
  /\ \E viewers \in {0, 1} :
       collectors = [i \in 1..(2 + viewers) |->
                       IF i <= 2
                       THEN [sb |-> i, cid |-> i, pos |-> 0, kind |-> "collector", open |-> TRUE]
                       ELSE [sb |-> 2, cid |-> 2, kind |-> "viewer", open |-> TRUE,
                             ended |-> FALSE, frames |-> <<>>,
                             sent |-> <<StatusFrame("running")>>, pos |-> 0]]
  /\ hist = InitHist(2)

NextShutdown ==
  \/ Tick
  \/ TtlCheck
  \/ ~Exited /\ (SweepStop \/ SweepRemove \/ SweepUpdate)
  \/ LogCleanup
  \/ \E c \in Callers, signal \in {"SIGTERM", "SIGINT"} : Signal(c, signal)
  \/ \E c \in Callers : ShutdownStep(c) \/ TimerElapse(c) \/ ForceExit(c)
  \/ \E i \in 1..3 : WsClose(i)

\* the event loop runs every callback that is ready, and time passes
SpecShutdown ==
  /\ InitShutdown /\ [][NextShutdown]_vars
  /\ \A c \in Callers :
       /\ WF_vars(ShutdownStep(c))
       /\ WF_vars(TimerElapse(c))
       /\ WF_vars(ForceExit(c))

(***************************************************************************)
(* SpecSecrets: a plaintext is encrypted twice under one master key; the   *)
(* first stored string may have one bit flipped; each string is decrypted  *)
(* under the same or under another master key                              *)
(***************************************************************************)
InitSecrets == InitWith(0)

MaxStored == 4 * ((nonceLength + overheadLength + 2 * MaxPlain + 2) \div 3)

NextSecrets ==
  \/ \E x \in Plaintexts : BeginSecret(1, x, 11)
  \/ 1 \in SecretCalls /\ BeginSecret(2, calls[1].x, 11)
  \/ \E c \in Callers : SecretEncrypt(c)
  \/ \E i \in 1..MaxStored, b \in 0..7 : SecretTamper(1, i, b)
  \/ \E c \in Callers, k \in MasterKeys : SecretDecrypt(c, k)

SpecSecrets == InitSecrets /\ [][NextSecrets]_vars

(***************************************************************************)
(* SpecRace: sandbox 1 of user A is running, with or without an expiry;    *)
(* A's start, stop and restart calls on it interleave statement by         *)
(* statement with each other and with the TTL sweeper                      *)
(***************************************************************************)
MaxRaceCalls == 3      \* start, stop and restart calls begun during a run

InitRace ==
  /\ InitStore
  /\ \E exp \in {NULL, 1} : sandboxes = (1 :> [PreRow(1) EXCEPT !.expires_at = exp])
  /\ logs = [s \in SandboxIds |-> <<>>]
  /\ containers = (1 :> [state |-> "running", ports |-> <<>>, emitted |-> 0, out |-> <<>>])
  /\ prov = [i \in {} |-> NULL]
  /\ collectors = <<[sb |-> 1, cid |-> 1, pos |-> 0, kind |-> "collector", open |-> TRUE]>>
  /\ hist = InitHist(1)

NextRace ==
  \/ \E c \in Callers, op \in {"start", "stop", "restart"} :
       BeginOp(c, op, "A", 1, MaxRaceCalls)
  \/ \E c \in Callers : StartStep(c) \/ StopStep(c) \/ RestartStep(c) \/ OpGet(c)
  \/ Tick
  \/ SweepStep

SpecRace == InitRace /\ [][NextRace]_vars

(***************************************************************************)
(* SpecHeal: sandbox 1 of user A is running and its log collector follows  *)
(* the container; the container writes, exits, dies or is removed from the *)
(* runtime without a call of the user, and A reads the sandbox.  No caller *)
(* of syncStatus exists in the server, so none is part of it.              *)
(***************************************************************************)
InitHeal == InitWith(1)

NextHeal ==
  \/ \E c \in Callers : BeginOp(c, "get", "A", 1, MaxCalls)
  \/ \E c \in Callers : GetLoad(c)
  \/ ContainerEmit(1) \/ ContainerExit(1) \/ ContainerDie(1) \/ ContainerVanish(1)
  \/ CollectorStep(1)

SpecHeal ==
  /\ InitHeal /\ [][NextHeal]_vars
  /\ \A c \in Callers : WF_vars(GetLoad(c))

(***************************************************************************)
(* SpecSync: sandbox 1 of user A from its creation on; its provisioner,    *)
(* A's stop and start calls, the container exiting, dying or being removed *)
(* from the runtime, and syncStatus(1) called at any moment                *)
(***************************************************************************)
InitSync == InitCreated(NULL)

NextSync ==
  \/ \E c \in Callers : BeginSync(c, 1, MaxCalls)
  \/ \E c \in Callers, op \in {"stop", "start"} : BeginOp(c, op, "A", 1, MaxCalls)
  \/ \E c \in Callers : SyncStep(c) \/ StopStep(c) \/ StartStep(c) \/ OpGet(c)
  \/ ProvStep(1)
  \/ ContainerExit(1) \/ ContainerDie(1) \/ ContainerVanish(1)

SpecSync == InitSync /\ [][NextSync]_vars

(***************************************************************************)
(* SpecTail: sandbox 1 of user A is running; A opens log sockets and closes *)
(* them and stops the sandbox, the container writes and may exit. Every    *)
(* call and every tail task that can take a step eventually takes it; the  *)
(* container is not required to write or to exit.                          *)
(***************************************************************************)
InitTail == InitWith(1)

NextTail ==
  \/ \E c \in Callers, op \in {"ws", "stop"} : BeginOp(c, op, "A", 1, MaxCalls)
  \/ \E c \in Callers : WsConnect(c) \/ WsHistory(c) \/ StopStep(c) \/ OpGet(c)
  \/ ContainerEmit(1) \/ ContainerExit(1)
  \/ \E i \in LogTasks : CollectorStep(i) \/ ViewerStep(i) \/ WsClose(i)

SpecTail ==
  /\ InitTail /\ [][NextTail]_vars
  /\ \A c \in Callers : WF_vars(WsConnect(c) \/ WsHistory(c) \/ StopStep(c) \/ OpGet(c))
  /\ \A i \in LogTasks : WF_vars(ViewerStep(i))

(***************************************************************************)
(* SpecCap: sandbox 1 of user A is running, its collector follows the      *)
(* container and A opens log sockets; the limit of rows per sandbox is     *)
(* scaled down so that the container's output exceeds it                   *)
(***************************************************************************)
SmallLogLimit == 1

InitCap == InitWith(1)

CollectorStepCapped(i) == CollectorWrite(i, SmallLogLimit)

NextCap ==
  \/ \E c \in Callers : BeginOp(c, "ws", "A", 1, MaxCalls)
  \/ \E c \in Callers : WsConnect(c) \/ WsHistory(c)
  \/ ContainerEmit(1) \/ ContainerExit(1)
  \/ \E i \in LogTasks : CollectorStepCapped(i) \/ ViewerStep(i) \/ WsClose(i)

SpecCap == InitCap /\ [][NextCap]_vars

(***************************************************************************)
(* SpecVersion: createSandbox calls of A and B on either environment, with *)
(* no environmentVersionId, with the id of A's version, of B's version, or *)
(* with an id that names no row; and the provisioners of the sandboxes     *)
(***************************************************************************)
InitVersion == InitWith(0)

VersionInputs == {NULL, 1, 2, 3}

NextVersion ==
  \/ \E c \in Callers, u \in Users, e \in {1, 2}, ver \in VersionInputs :
       BeginCreate(c, u, e, ver, <<"n", 1>>, NULL, MaxCalls)
  \/ \E c \in Callers : CreateStep(c)
  \/ \E s \in 1..MaxCalls : ProvStep(s)

SpecVersion == InitVersion /\ [][NextVersion]_vars

(***************************************************************************)
(* SpecPending: sandbox 1 of user A has just been created, with a ttl or   *)
(* without; its provisioner, the clock, the TTL sweeper, the container's   *)
(* own exit and A's stopSandbox and destroySandbox calls. Every runtime    *)
(* and store call returns: every task that can take its next step takes it *)
(***************************************************************************)
InitPending == \E exp \in {NULL, 1} : InitCreated(exp)

NextPending ==
  \/ Tick
  \/ SweepStep
  \/ ProvStep(1)
  \/ ContainerExit(1)
  \/ \E c \in Callers, op \in {"stop", "destroy"} : BeginOp(c, op, "A", 1, MaxCalls)
  \/ \E c \in Callers : StopStep(c) \/ DestroyStep(c) \/ OpGet(c)

SpecPending ==
  /\ InitPending /\ [][NextPending]_vars
  /\ WF_vars(Tick) /\ WF_vars(SweepStep) /\ WF_vars(ProvStep(1))
  /\ \A c \in Callers : WF_vars(StopStep(c) \/ DestroyStep(c) \/ OpGet(c))

(***************************************************************************)
(* SpecProbe: sandbox 1 of user A runs with one or two port mappings whose *)
(* host ports are distinct; A replicates it without port overrides and     *)
(* stops it, and the replicas are provisioned                              *)
(***************************************************************************)
HostChoices == {48080, 48081, 48082, MaxPort}

\* the port lists of the original: one mapping, or two with distinct host ports
OriginalPorts ==
  {<<[container |-> 80, host |-> h]>> : h \in HostChoices}
    \cup {<<[container |-> 80, host |-> h[1]], [container |-> 81, host |-> h[2]]>> :
            h \in {x \in HostChoices \X HostChoices : x[1] # x[2]}}

InitProbe ==
  /\ InitStore
  /\ \E ports \in OriginalPorts : InitSandboxesWith(1, ports)

NextProbe ==
  \/ \E c \in Callers : BeginReplicate(c, "A", 1, NoName, MaxCalls)
  \/ \E c \in Callers : BeginOp(c, "stop", "A", 1, MaxCalls)
  \/ \E c \in Callers : ReplicateStep(c) \/ CreateStep(c) \/ StopStep(c) \/ OpGet(c)
  \/ \E s \in 2..(MaxCalls + 1) : ProvStep(s)

SpecProbe == InitProbe /\ [][NextProbe]_vars

(***************************************************************************)
(* SpecCollect: sandbox 1 of user A is running with the log collector its  *)
(* provisioner attached; A stops and restarts it, the container writes,    *)
(* and the collector follows the container's log stream until it ends      *)
(***************************************************************************)
InitCollect == InitWith(1)

NextCollect ==
  \/ \E c \in Callers, op \in {"stop", "restart"} : BeginOp(c, op, "A", 1, MaxCalls)
  \/ \E c \in Callers : StopStep(c) \/ RestartStep(c) \/ OpGet(c)
  \/ ContainerEmit(1)
  \/ \E i \in LogTasks : CollectorStep(i)

SpecCollect == InitCollect /\ [][NextCollect]_vars

(***************************************************************************)
(* Properties of createSandbox and replicateSandbox                        *)
(***************************************************************************)
\* a createSandbox call that has returned or thrown
CreateDone(c) == calls[c].op = "create" /\ calls[c].pc = "done"

\* the version the call names, or the environment's current one
VersionOf(c) ==
  IF calls[c].ver # NULL THEN calls[c].ver
  ELSE environments[calls[c].env].current_version_id

\* two calls that were in flight at the same time
Concurrent(c, d) == calls[c].seq \in calls[d].over \/ calls[d].seq \in calls[c].over

\* C1, as the specification states it: a createSandbox call made when a sandbox
\* with its key (user, environment, name) exists returns that sandbox's id,
\* inserts no row and starts no provisioner, whatever its other parameters and
\* whatever other sandboxes the user has.
C1_IdempotentAlways ==
  \A c \in Callers :
    (CreateDone(c) /\ calls[c].hkey # {}) =>
      /\ calls[c].res.kind = "ok" /\ calls[c].res.id \in calls[c].hkey
      /\ ~calls[c].ins /\ ~calls[c].spawned

\* C1, as the code has it: a createSandbox call made when a sandbox with its key
\* exists inserts no row and starts no provisioner; it throws QuotaExceeded when
\* the user's count of non-terminal sandboxes has reached the quota, NotFound
\* when the version it names does not exist, and otherwise returns that
\* sandbox's id.
C1_IdempotentBelowQuota ==
  \A c \in Callers :
    (CreateDone(c) /\ calls[c].hkey # {}) =>
      /\ ~calls[c].ins /\ ~calls[c].spawned
      /\ IF calls[c].count >= MAX_SANDBOXES_PER_USER
         THEN calls[c].res.kind = "QuotaExceeded"
         ELSE IF VersionOf(c) \notin DOMAIN versions
         THEN calls[c].res.kind = "NotFound"
         ELSE calls[c].res.kind = "ok" /\ calls[c].res.id \in calls[c].hkey

\* a call below the quota has returned the id of the sandbox that held its key
C1_Witness ==
  \E c \in Callers :
    /\ CreateDone(c) /\ calls[c].hkey # {}
    /\ calls[c].count < MAX_SANDBOXES_PER_USER
    /\ calls[c].res.kind = "ok" /\ calls[c].res.id \in calls[c].hkey
    /\ hist.provStarted[calls[c].res.id] = 1

\* C2: of two concurrent createSandbox calls with the same key, made below the
\* quota with a version that exists, exactly one inserts a row and both return
\* that row's id.
C2_ConcurrentSameKey ==
  \A c, d \in Callers :
    (/\ c # d /\ CreateDone(c) /\ CreateDone(d) /\ Concurrent(c, d)
     /\ calls[c].env = calls[d].env /\ calls[c].name = calls[d].name
     /\ calls[c].name # NoName
     /\ \A x \in {c, d} : /\ calls[x].count < MAX_SANDBOXES_PER_USER
                          /\ calls[x].res.kind \notin {"NotFound", "QuotaExceeded"}) =>
      /\ calls[c].res.kind = "ok" /\ calls[d].res.kind = "ok"
      /\ calls[c].res.id = calls[d].res.id
      /\ calls[c].ins # calls[d].ins

\* C3: at most one provisioner is started for a sandbox id, and only for an id
\* whose row was inserted.
C3_OneProvisioner ==
  \A s \in SandboxIds :
    /\ hist.provStarted[s] <= 1
    /\ hist.provStarted[s] > 0 => s \in hist.inserted
    /\ s \in DOMAIN prov => hist.provStarted[s] = 1

\* two calls have returned the same sandbox, one of them a replicateSandbox call,
\* and one provisioner was started for it
C3_Witness ==
  \E c, d \in Callers :
    /\ c # d /\ calls[c].pc = "done" /\ calls[d].pc = "done"
    /\ calls[c].op = "replicate" /\ calls[d].op = "create"
    /\ calls[c].res.kind = "ok" /\ calls[d].res.kind = "ok"
    /\ calls[c].res.id = calls[d].res.id
    /\ calls[d].ins /\ ~calls[c].ins
    /\ hist.provStarted[calls[c].res.id] = 1

\* C5: the quota step of a call made by a user who has MAX_SANDBOXES_PER_USER
\* non-terminal sandboxes ends the call with QuotaExceeded, and leaves the
\* sandboxes, the provisioners and the containers as they are.
C5_QuotaExceeded ==
  [][\A c \in Callers :
       (/\ IsCreate(c) /\ calls[c].pc = "quota" /\ calls'[c] # calls[c]
        /\ CountActive(calls[c].user) >= MAX_SANDBOXES_PER_USER) =>
         /\ calls'[c].pc = "done" /\ calls'[c].res.kind = "QuotaExceeded"
         /\ ~calls'[c].ins /\ ~calls'[c].spawned
         /\ UNCHANGED <<sandboxes, prov, containers>>]_vars

\* a call has met the quota and ended with QuotaExceeded
C5_Witness ==
  \E c \in Callers :
    /\ IsCreate(c) /\ calls[c].pc = "done"
    /\ calls[c].count = MAX_SANDBOXES_PER_USER
    /\ calls[c].res.kind = "QuotaExceeded"
    /\ CountActive(calls[c].user) = MAX_SANDBOXES_PER_USER

(***************************************************************************)
(* Properties of the sandbox lifecycle                                     *)
(***************************************************************************)
\* the (status, phase) changes of the specification's table
ListedTransitions ==
  {<<<<"pending", "creating">>, <<"pending", "starting">>>>,
   <<<<"pending", "starting">>, <<"running", "healthy">>>>,
   <<<<"pending", "creating">>, <<"error", "failed">>>>,
   <<<<"running", "healthy">>, <<"stopped", "stopped">>>>,
   <<<<"stopped", "stopped">>, <<"running", "healthy">>>>,
   <<<<"running", "healthy">>, <<"expired", "stopped">>>>}

StatusPhase(row) == <<row.status, row.phase>>

\* C4: every change of a sandbox row's (status, phase) is one of the listed
\* transitions (a deleted row aside), under every interleaving of the user's
\* operations, the provisioner and syncStatus.
C4_OnlyListedTransitions ==
  [][\A s \in DOMAIN sandboxes \cap DOMAIN sandboxes' :
       StatusPhase(sandboxes[s]) # StatusPhase(sandboxes'[s]) =>
         <<StatusPhase(sandboxes[s]), StatusPhase(sandboxes'[s])>> \in ListedTransitions]_vars

\* no task is left that acts on sandbox s: no call in flight, provisioner ended
Settled(s) ==
  /\ \A c \in Callers : calls[c].pc \in {"idle", "done"}
  /\ s \in DOMAIN prov => prov[s].pc = "done"

\* C9: once destroySandbox has returned true for a sandbox there is no row and no
\* stored log of it, and when its provisioner has ended and no call is in flight
\* (nothing is left that removes containers) the runtime holds no container of it.
C9_DestroyedLeavesNothing ==
  \A s \in hist.destroyed :
    /\ s \notin DOMAIN sandboxes
    /\ logs[s] = <<>>
    /\ Settled(s) => s \notin DOMAIN containers

(***************************************************************************)
(* Tenant isolation                                                        *)
(***************************************************************************)
\* what an operation answers for a sandbox that is not there
NotFoundResult(op) ==
  CASE op \in {"start", "stop", "restart", "replicate", "logs"} -> [kind |-> "NotFound"]
    [] op \in {"get", "cid"} -> [kind |-> "null"]
    [] op = "destroy" -> [kind |-> "false"]
    [] op = "ws" -> [kind |-> "closed", code |-> 4004]

\* call c is in flight on a sandbox that another user owns
Foreign(c) ==
  /\ calls[c].pc \notin {"idle", "done"}
  /\ calls[c].sb \in DOMAIN sandboxes
  /\ sandboxes[calls[c].sb].user_id # calls[c].user

\* C6: a step of an operation that a user invokes on another user's sandbox ends
\* the operation with its not-found answer (the WebSocket closed with 4004) and
\* leaves the sandbox rows, the stored logs and the containers unchanged.
C6_TenantIsolation ==
  [][\A c \in Callers :
       (Foreign(c) /\ calls'[c] # calls[c]) =>
         /\ calls'[c].pc = "done"
         /\ calls'[c].res = NotFoundResult(calls[c].op)
         /\ UNCHANGED <<sandboxes, logs, containers>>]_vars

\* B's stop, destroy and WebSocket connection have been answered while A's
\* sandbox is there and running
C6_Witness ==
  /\ 1 \in DOMAIN sandboxes /\ sandboxes[1].user_id = "A"
  /\ sandboxes[1].status = "running"
  /\ 1 \in DOMAIN containers /\ containers[1].state = "running"
  /\ \E c, d \in Callers :
       /\ calls[c].pc = "done" /\ calls[c].user = "B" /\ calls[c].sb = 1
       /\ calls[c].op = "destroy" /\ calls[c].res.kind = "false"
       /\ calls[d].pc = "done" /\ calls[d].user = "B" /\ calls[d].sb = 1
       /\ calls[d].op \in {"stop", "ws"}

(***************************************************************************)
(* Properties of the environment API                                       *)
(***************************************************************************)
\* the step in which call c's updateEnvironment commits
UpdateCommits(c) ==
  calls[c].op = "update" /\ calls[c].pc = "commit" /\ calls'[c].pc = "respond"

\* every version row that existed, now or when the call took the lock, is the same
\* after the commit, and the one new row is numbered after the current version
VersionsKept(c) ==
  LET e == calls[c].env
      prev == versions[environments[e].current_version_id]
      nv == environments'[e].current_version_id
  IN /\ \A v \in DOMAIN versions : v \in DOMAIN versions' /\ versions'[v] = versions[v]
     /\ \A v \in DOMAIN calls[c].vers : versions'[v] = calls[c].vers[v]
     /\ DOMAIN versions' = DOMAIN versions \cup {nv}
     /\ nv \notin DOMAIN versions
     /\ versions'[nv].environment_id = e
     /\ versions'[nv].version = prev.version + 1

\* C7, as the specification states it: an updateEnvironment call leaves every
\* existing version row as it was, numbers the new version one above the previous
\* current version, and changes only current_version_id on the environment row.
C7_OnlyCurrentVersionChanges ==
  [][\A c \in Callers : UpdateCommits(c) =>
       /\ VersionsKept(c)
       /\ environments' =
            [environments EXCEPT ![calls[c].env].current_version_id =
                                   environments'[calls[c].env].current_version_id]]_vars

\* C7, as the code has it: an updateEnvironment call leaves every existing version
\* row as it was, numbers the new version one above the previous current version,
\* and changes current_version_id and updated_at on the environment row, updated_at
\* becoming the start time of the call's transaction; no other environment row
\* and no other column changes.
C7_VersionFrame ==
  [][\A c \in Callers : UpdateCommits(c) =>
       /\ VersionsKept(c)
       /\ environments' =
            [environments EXCEPT ![calls[c].env].current_version_id =
                                   environments'[calls[c].env].current_version_id,
                                 ![calls[c].env].updated_at = calls[c].exp]]_vars

\* an update of A's environment has answered; it was made after the clock moved and
\* carried a secret over from version 1
C7_Witness ==
  /\ 1 \in DOMAIN environments
  /\ environments[1].current_version_id # 1
  /\ environments[1].updated_at > environments[1].created_at
  /\ "K1" \in DOMAIN versions[1].secrets
  /\ \E c \in Callers : /\ calls[c].pc = "done" /\ calls[c].op = "update"
                        /\ calls[c].res.kind = "put"

\* the entries of a secrets part are {key, redacted: true} and nothing else
Redacted(entries) ==
  \A x \in entries : DOMAIN x = {"key", "redacted"} /\ x.redacted = TRUE

\* the secrets part of an environment response
SecretsPart(body) ==
  IF body.version.kind = "version" THEN body.version.secrets ELSE {}

\* the version rows that differ from a row only in the values of its secrets
Alternatives(version) ==
  IF version = NoRow THEN {NoRow}
  ELSE {[version EXCEPT !.secrets = s] : s \in [DOMAIN version.secrets -> Ciphertexts]}

\* C10: the answers of getEnvironment, listEnvironments, PUT /environments/:id and
\* setSecret carry only {key, redacted: true} entries for secrets, and are the
\* answers the same calls give from rows that differ only in the secrets' values.
C10_SecretOpacity ==
  \A c \in Callers : calls[c].pc = "done" =>
    LET res == calls[c].res
        used == calls[c].used
    IN CASE res.kind = "env" ->
              /\ Redacted(SecretsPart(res.body))
              /\ \A alt \in Alternatives(used[1][2]) :
                   toResponse(used[1][1], alt) = res.body
         [] res.kind = "list" ->
              \A i \in 1..Len(res.body) :
                /\ Redacted(SecretsPart(res.body[i]))
                /\ \A alt \in Alternatives(used[i][2]) :
                     toResponse(used[i][1], alt) = res.body[i]
         [] res.kind = "put" ->
              /\ Redacted(SecretsPart(res.body))
              /\ \A alt \in Alternatives(used[1][2]) :
                   PutResponse(used[1][1], alt) = res.body
         [] res.kind = "secret" ->
              /\ Redacted({res.body})
              /\ \A v \in Ciphertexts : SecretResult(calls[c].key, v) = res.body
         [] OTHER -> TRUE

\* setSecret has answered, and a getEnvironment after it lists the key it set
C10_Witness ==
  \E c, d \in Callers :
    /\ calls[c].pc = "done" /\ calls[c].op = "setSecret" /\ calls[c].res.kind = "secret"
    /\ calls[d].pc = "done" /\ calls[d].op = "getEnv" /\ calls[d].res.kind = "env"
    /\ [key |-> calls[c].key, redacted |-> TRUE] \in SecretsPart(calls[d].res.body)

(***************************************************************************)
(* Properties of the TTL sweeper                                           *)
(***************************************************************************)
\* the sandbox's expires_at has passed
Overdue(s) == s \in DOMAIN sandboxes /\ Due(s)

\* the row is expired/stopped and its container is not in the runtime
ExpiredAndRemoved(s) ==
  /\ s \in DOMAIN sandboxes
  /\ sandboxes[s].status = "expired" /\ sandboxes[s].phase = "stopped"
  /\ sandboxes[s].container_id \notin DOMAIN containers
  /\ s \notin DOMAIN containers

\* C8: a sandbox whose expires_at has passed eventually (while the sweeper keeps
\* running) is expired/stopped with no container in the runtime, whatever its
\* status was when expires_at passed; a sandbox that has been destroyed meanwhile
\* is not counted against it.
C8_OverdueEventuallyExpired ==
  Overdue(1) ~> (1 \notin DOMAIN sandboxes \/ ExpiredAndRemoved(1))

(***************************************************************************)
(* Properties of the logs                                                  *)
(***************************************************************************)
\* the text is the redaction of what container k wrote as its event n
RedactionOf(text, k, n) ==
  /\ n \in 1..Len(hist.out[k])
  /\ text = redactSecrets(hist.out[k][n])

\* the log frames sent so far: the stored rows sent at the connection, and the
\* events streamed to the open sockets
FramesOf(s) ==
  {f \in UNION {{calls[c].res.frames[i] : i \in 1..Len(calls[c].res.frames)} :
                  c \in {d \in Callers : /\ calls[d].pc = "done" /\ calls[d].op = "ws"
                                         /\ calls[d].sb = s
                                         /\ calls[d].res.kind = "open"}} : TRUE}
  \cup UNION {{collectors[i].frames[j] : j \in 1..Len(collectors[i].frames)} :
                i \in {x \in 1..Len(collectors) : /\ collectors[x].kind = "viewer"
                                                  /\ collectors[x].sb = s}}

\* C11: every text stored in sandbox_logs and every text sent in a log frame is
\* redactSecrets applied to the text the container wrote for that event.
C11_LogsRedacted ==
  \A s \in DOMAIN logs :
    /\ \A i \in 1..Len(logs[s]) : RedactionOf(logs[s][i].text, s, logs[s][i].timestamp)
    /\ \A f \in FramesOf(s) : RedactionOf(f.text, s, f.timestamp)

\* a line with a token has been stored, sent as a stored row at a connection, and
\* streamed to an open socket, each time in another form than the container wrote
C11_Witness ==
  /\ \E i \in 1..Len(logs[1]) : logs[1][i].text # hist.out[1][logs[1][i].timestamp]
  /\ \E c \in Callers :
       /\ calls[c].pc = "done" /\ calls[c].op = "ws" /\ calls[c].res.kind = "open"
       /\ \E i \in 1..Len(calls[c].res.frames) :
            calls[c].res.frames[i].text # hist.out[1][calls[c].res.frames[i].timestamp]
  /\ \E i \in 1..Len(collectors) :
       /\ collectors[i].kind = "viewer"
       /\ \E j \in 1..Len(collectors[i].frames) :
            collectors[i].frames[j].text # hist.out[1][collectors[i].frames[j].timestamp]

\* the rows of sandbox s stored for event n of its container
StoredFor(s, n) == {i \in 1..Len(logs[s]) : logs[s][i].timestamp = n}

\* C13: no event of a sandbox's container is stored in sandbox_logs more than once,
\* whatever sockets are open and whatever stop/start cycles the sandbox went
\* through (the part of "exactly once" that a finite run can refute).
C13_StoredOnce ==
  \A s \in DOMAIN sandboxes : \A n \in 1..Len(hist.out[s]) :
    Cardinality(StoredFor(s, n)) <= 1

(***************************************************************************)
(* Properties of the replicas' ports                                       *)
(***************************************************************************)
HostPorts(s) == {sandboxes[s].ports[i].host : i \in 1..Len(sandboxes[s].ports)}

Live(s) == s \in DOMAIN sandboxes /\ sandboxes[s].status \in {"pending", "running"}

\* C12: no two live (pending or running) sandboxes have a port mapping with the
\* same host port, whatever replicateSandbox calls without port overrides were made.
C12_DistinctHostPorts ==
  \A s, t \in DOMAIN sandboxes :
    s # t /\ Live(s) /\ Live(t) => HostPorts(s) \cap HostPorts(t) = {}

(***************************************************************************)
(* Properties of start, stop and restart outside their states              *)
(***************************************************************************)
\* the call's operation is not valid from the status
CrossState(op, status) ==
  IF op = "start" THEN status # "stopped" ELSE status # "running"

\* call c has loaded the row in this step
Loads(c) ==
  /\ calls[c].pc = "load" /\ calls'[c].pc # "load"
  /\ calls[c].op \in {"start", "stop", "restart"}
  /\ OwnedRow(calls[c].user, calls[c].sb)

\* C14: a start on a sandbox that is not stopped, and a stop or a restart on a
\* sandbox that is not running, ends when it has loaded the row: it returns that
\* row and goes on to no runtime call and no update.
C14_CrossStateReturnsRow ==
  [][\A c \in Callers :
       Loads(c) /\ CrossState(calls[c].op, sandboxes[calls[c].sb].status) =>
         /\ calls'[c].pc = "done"
         /\ calls'[c].res = SandboxResponse(calls[c].sb)]_vars

\* C15: a sandbox whose status is expired or error is never given the status
\* running by a later step of any operation.
C15_TerminalNeverRunning ==
  [][\A s \in DOMAIN sandboxes :
       sandboxes[s].status \in {"expired", "error"} /\ s \in DOMAIN sandboxes' =>
         sandboxes'[s].status # "running"]_vars

(***************************************************************************)
(* Properties of container_id                                              *)
(***************************************************************************)
\* C16, as the specification states it: a row whose status is running, stopped,
\* error or expired has a container id (rows being destroyed are still rows and
\* are covered).
C16_ContainerIdUnlessPending ==
  \A s \in DOMAIN sandboxes :
    sandboxes[s].status # "pending" => sandboxes[s].container_id # NULL

\* C16, as the code has it: a row whose status is running or stopped has a
\* container id; a row in error or expired may have none.
C16_ContainerIdWhenRunningOrStopped ==
  \A s \in DOMAIN sandboxes :
    sandboxes[s].status \in {"running", "stopped"} => sandboxes[s].container_id # NULL

\* the provisioner has finished and the sandbox, once running, has been stopped
C16_Witness ==
  /\ 1 \in DOMAIN sandboxes /\ ProvAt(1, "done")
  /\ sandboxes[1].status = "stopped" /\ sandboxes[1].container_id # NULL
  /\ hist.collectorsStarted[1] > 0

(***************************************************************************)
(* Properties of createEnvironment and of the version rows                 *)
(***************************************************************************)
\* the createEnvironment calls that have thrown inside their transaction
FailedCreates ==
  {c \in Callers : /\ calls[c].op = "createEnv" /\ calls[c].pc = "done"
                   /\ calls[c].res.kind \in {"Error", "Conflict"}
                   /\ "env" \in DOMAIN calls[c].res}

\* C17: every committed environment row has a current_version_id that names a
\* version row of that same environment, (user_id, name) is unique, and a
\* createEnvironment call that has failed, a duplicate name (Conflict) included,
\* has left neither the environment row nor the version row it had inserted.
C17_CreateEnvironmentAtomic ==
  /\ \A e \in DOMAIN environments :
       /\ environments[e].current_version_id \in DOMAIN versions
       /\ versions[environments[e].current_version_id].environment_id = e
  /\ \A e1, e2 \in DOMAIN environments :
       /\ environments[e1].user_id = environments[e2].user_id
       /\ environments[e1].name = environments[e2].name
       => e1 = e2
  /\ \A c \in FailedCreates :
       /\ calls[c].res.env \notin DOMAIN environments
       /\ calls[c].res.version \notin DOMAIN versions
       /\ \A v \in DOMAIN versions : versions[v].environment_id # calls[c].res.env

\* one call was rolled back after both INSERTs, another was refused as a
\* duplicate, and a third has committed its environment
C17_Witness ==
  /\ \E c \in FailedCreates :
       calls[c].res.kind = "Error" /\ calls[c].res.version # NULL
  /\ \E c \in FailedCreates : calls[c].res.kind = "Conflict"
  /\ \E e \in DOMAIN environments : e >= FirstNewEnv

\* C18: every version row, written by createEnvironment or by updateEnvironment,
\* has exactly one of image and dockerfile populated.
C18_ExactlyOneOfImageDockerfile ==
  \A v \in DOMAIN versions :
    (versions[v].image # Nil) # (versions[v].dockerfile # Nil)

(***************************************************************************)
(* Properties of concurrent updateEnvironment calls                        *)
(***************************************************************************)
\* the version numbers of environment e
VersionNumbers(e) == {versions[v].version : v \in DOMAIN VersionsOf(e)}

\* the updateEnvironment calls of the owner that have returned or thrown
OwnerUpdates ==
  {c \in Callers : /\ calls[c].op = "update" /\ calls[c].pc = "done"
                   /\ calls[c].user = "A"}

\* C19: however updateEnvironment calls on an environment interleave, each call
\* of the owner succeeds as long as the environment exists, the version numbers
\* of the environment are exactly 1..n, one row each, and current_version_id
\* names the row with the highest number.
C19_ConcurrentUpdatesSerialised ==
  /\ \A e \in DOMAIN environments :
       LET n == Cardinality(DOMAIN VersionsOf(e)) IN
         /\ VersionNumbers(e) = 1..n
         /\ versions[environments[e].current_version_id].version = n
  /\ \A c \in OwnerUpdates :
       calls[c].res.kind # "put" => calls[c].env \notin DOMAIN environments

\* two calls that were in flight together have both succeeded, and the
\* environment has three versions
C19_Witness ==
  /\ OwnerUpdates = Callers
  /\ \A c \in Callers : calls[c].res.kind = "put"
  /\ \E c, d \in Callers : calls[d].seq \in calls[c].over
  /\ 1 \in DOMAIN environments /\ VersionNumbers(1) = 1..3

(***************************************************************************)
(* Properties of deleteEnvironment                                         *)
(***************************************************************************)
\* the deleteEnvironment calls that have returned true
Deleted ==
  {c \in Callers : /\ calls[c].op = "deleteEnv" /\ calls[c].pc = "done"
                   /\ calls[c].res.kind = "true"}

\* C20: once deleteEnvironment has returned true, the environment has no version
\* row and no sandbox row, and no container of a sandbox built from it is left
\* in the runtime (container k is sandbox k's; hist.inserted are the sandboxes
\* ever inserted, all of them built from the environment).
C20_DeleteEnvironmentDestroysSandboxes ==
  \A c \in Deleted :
    /\ DOMAIN VersionsOf(calls[c].env) = {}
    /\ \A s \in DOMAIN sandboxes : sandboxes[s].environment_id # calls[c].env
    /\ DOMAIN containers \cap hist.inserted = {}

(***************************************************************************)
(* Properties of the audit entries of POST /sandboxes                      *)
(***************************************************************************)
\* the audit entries with action sandbox.created that name sandbox s
CreatedEntries(s) ==
  {i \in 1..Len(hist.audit) :
     hist.audit[i].action = "sandbox.created" /\ hist.audit[i].resource_id = s}

\* C21: whatever create requests are made, for each sandbox at most one audit
\* entry sandbox.created is recorded and at most one container is created.
C21_OneAuditEntryPerSandbox ==
  \A s \in hist.inserted :
    /\ Cardinality(CreatedEntries(s)) <= 1
    /\ hist.created[s] <= 1

(***************************************************************************)
(* Properties of the frames of a log socket                                *)
(***************************************************************************)
\* the number of rows or frames of q with timestamp t
CountAt(q, t) == Cardinality({i \in 1..Len(q) : q[i].timestamp = t})

\* r is what a replay of the rows stored must be: the newest HistoryLimit rows
\* (all of them if fewer), oldest first
IsReplayOf(r, stored) ==
  /\ Len(r) = Min({Len(stored), HistoryLimit})
  /\ \A i, j \in 1..Len(r) : i < j => r[i].timestamp <= r[j].timestamp
  /\ \A i \in 1..Len(r) : \E j \in 1..Len(stored) : r[i] = LogFrame(stored[j])
  /\ \A j \in 1..Len(stored) :
       IF r # <<>> /\ stored[j].timestamp > r[1].timestamp
       THEN CountAt(r, stored[j].timestamp) = CountAt(stored, stored[j].timestamp)
       ELSE CountAt(r, stored[j].timestamp) <= CountAt(stored, stored[j].timestamp)

\* sent is a status frame followed by the replay of stored
IsStatusThenReplay(sent, stored) ==
  /\ sent # <<>> /\ sent[1].event = "status"
  /\ \A r \in {Tail(sent)} : \A q \in {stored} : IsReplayOf(r, q)

\* the step in which handleLogStream reads the stored rows and sends them
Replays(c) == At(c, "ws", "history") /\ calls'[c].pc = "done"

\* C22: on every log socket the first frame is the status frame, then come the
\* newest 100 rows stored when they are read, oldest first; a live stream starts
\* with exactly these frames sent, and every later frame of the socket is a live
\* log frame appended after them (a step that ends a collector renumbers the
\* streams and sends nothing).
C22_StatusThenReplayThenLive ==
  [][/\ \A c \in Callers :
          Replays(c) =>
            /\ IsStatusThenReplay(calls'[c].sent, logs[calls[c].sb])
            /\ Len(collectors') > Len(collectors) =>
                 /\ collectors'[Len(collectors')].sent = calls'[c].sent
                 /\ collectors'[Len(collectors')].frames = <<>>
     /\ \A i \in 1..Len(collectors) :
          /\ collectors[i].kind = "viewer"
          /\ Len(collectors') >= Len(collectors) /\ collectors'[i].kind = "viewer"
          /\ collectors'[i].sent # collectors[i].sent
          => /\ collectors'[i].frames # collectors[i].frames
             /\ collectors'[i].sent =
                  Append(collectors[i].sent,
                         collectors'[i].frames[Len(collectors'[i].frames)])
             /\ collectors'[i].frames[Len(collectors'[i].frames)].event = "log"]_vars

\* a socket found more than 100 rows stored, replayed 100 of them after the
\* status frame and then sent a live frame
C22_Witness ==
  \E i \in 1..Len(collectors) :
    /\ collectors[i].kind = "viewer"
    /\ Len(logs[collectors[i].sb]) > HistoryLimit
    /\ Len(collectors[i].sent) = 1 + HistoryLimit + Len(collectors[i].frames)
    /\ collectors[i].sent[1].event = "status"
    /\ collectors[i].frames # <<>>

(***************************************************************************)
(* Properties of the terminal socket                                       *)
(***************************************************************************)
\* the terminal connections that have been answered
TerminalsDone == {c \in Callers : calls[c].op = "terminal" /\ calls[c].pc = "done"}

AttemptsOn(c, k) == SelectSeq(calls[c].attempts, LAMBDA a : a[1] = k)

\* the loop is over: every listed container had its turn
LoopOver(c) == calls[c].pc \in {"close", "closing", "closeDb", "exit", "exited"}

\* no sweep begins after the signal, and no log cleanup runs
NoNewPeriodicRun ==
  [][Signalled => /\ ~(sweeper.pc = "idle" /\ sweeper'.pc # "idle")
                  /\ \A s \in DOMAIN logs : Len(logs'[s]) >= Len(logs[s])]_vars

\* every listed container had a stop attempted, whatever happened to the others
EveryListedStopAttempted ==
  \A c \in ShutdownCalls :
    LoopOver(c) => \A k \in calls[c].listed :
                     /\ Len(AttemptsOn(c, k)) >= 1
                     /\ AttemptsOn(c, k)[1] = <<k, "stop">>

\* C24: after a termination signal no periodic job begins, a stop followed by
\* a remove has been attempted on every container listed, and the process
\* ends with the log sockets closed and the store pool closed
C24_ShutdownCleansUp ==
  \A c \in ShutdownCalls :
    calls[c].exit # NotExited =>
      /\ \A k \in calls[c].listed : AttemptsOn(c, k) = <<<<k, "stop">>, <<k, "remove">>>>
      /\ OpenSockets = {}
      /\ calls[c].pool = "closed"

\* C25: once a termination signal has been received the process exits
C25_SignalLeadsToExit == Signalled ~> Exited

\* the process exits when no call to the container runtime hangs
ExitsUnlessHung ==
  Signalled ~> (Exited \/ \E c \in ShutdownCalls : calls[c].pc = "hung")


(***************************************************************************)
(* SecretsService                                                          *)
(***************************************************************************)
SecretsDone == {c \in SecretCalls : calls[c].pc = "done"}
SecretsStored == {c \in SecretCalls : calls[c].original # <<>>}

\* a well-formed plaintext decrypts to itself under the key it was encrypted with
RoundTripWellFormed ==
  \A c \in SecretsDone :
    WellFormed(calls[c].x) /\ ~calls[c].tampered /\ calls[c].dkey = calls[c].key
      => calls[c].res = [kind |-> "ok", value |-> calls[c].x]

\* two encryptions give different strings, also of the same plaintext
DistinctCiphertexts ==
  \A c, d \in SecretsStored : c # d => calls[c].original # calls[d].original

\* a string whose bytes differ from the stored ones, or another key, fails
ChangedBytesRejected ==
  \A c \in SecretsDone :
    /\ calls[c].original # <<>>
    /\ \/ calls[c].dkey # calls[c].key
       \/ decodeBase64(calls[c].stored) # decodeBase64(calls[c].original)
    => calls[c].res = FailedToDecrypt

\* a decryption that succeeds gives the plaintext that was encrypted
DecryptsToPlaintextOnly ==
  \A c \in SecretsDone :
    calls[c].original # <<>> /\ calls[c].res.kind = "ok" => calls[c].res.value = calls[c].x

\* C26: decrypt(encrypt(x)) = x for every plaintext x, two encryptions of one
\* plaintext differ, and decrypt fails for a ciphertext with a flipped bit or
\* under another master key
C26_RoundTripAndTamperEvident ==
  /\ \A c \in SecretsDone :
       IF ~calls[c].tampered /\ calls[c].dkey = calls[c].key
       THEN calls[c].res = [kind |-> "ok", value |-> calls[c].x]
       ELSE calls[c].res = FailedToDecrypt
  /\ \A c, d \in SecretsStored : c # d => calls[c].original # calls[d].original


(***************************************************************************)
(* The provisioner's failures                                              *)
(***************************************************************************)
\* this step is one of sandbox s's provisioner
ProvisionerActs(s) == s \in DOMAIN prov /\ s \in DOMAIN prov' /\ prov'[s] # prov[s]

\* this step ends s's provisioner after a step that raised, or after the
\* container was found not healthy
ProvisionerFails(s) ==
  /\ ProvisionerActs(s)
  /\ prov'[s].pc = "done"
  /\ prov[s].pc = "fail" \/ (prov[s].pc = "mark" /\ ~prov[s].healthy)

\* C27: a provisioner that fails ends with its row, if the user has not
\* destroyed it, in error/failed; no step of a provisioner deletes a row or
\* removes a container, and none changes what a caller is returned
C27_ProvisionerFailureMarksError ==
  [][\A s \in SandboxIds :
       /\ ProvisionerFails(s) /\ s \in DOMAIN sandboxes
            => /\ sandboxes'[s].status = "error"
               /\ sandboxes'[s].phase = "failed"
       /\ ProvisionerActs(s)
            => /\ DOMAIN sandboxes' = DOMAIN sandboxes
               /\ DOMAIN containers \subseteq DOMAIN containers'
               /\ calls' = calls]_vars

\* the provisioner of sandbox 1 has failed after it created the container
C27_Witness ==
  /\ 1 \in DOMAIN prov /\ prov[1].pc = "done" /\ ~prov[1].healthy
  /\ 1 \in DOMAIN sandboxes
  /\ sandboxes[1].status = "error" /\ sandboxes[1].phase = "failed"
  /\ sandboxes[1].container_id # NULL
  /\ 1 \in DOMAIN containers


(***************************************************************************)
(* The status and the phase of a row                                       *)
(***************************************************************************)
StatusPhasePairs ==
  {<<"pending", "creating">>, <<"pending", "starting">>, <<"running", "healthy">>,
   <<"stopped", "stopped">>, <<"error", "failed">>, <<"expired", "stopped">>}

\* C28: the (status, phase) pair of every sandbox row is one of pending/creating,
\* pending/starting, running/healthy, stopped/stopped, error/failed,
\* expired/stopped
C28_StatusPhasePairs ==
  \A s \in DOMAIN sandboxes :
    <<sandboxes[s].status, sandboxes[s].phase>> \in StatusPhasePairs


(***************************************************************************)
(* The quota under concurrency                                             *)
(***************************************************************************)
\* C29: for every user the number of sandboxes whose status is not stopped,
\* expired or error is at most MAX_SANDBOXES_PER_USER
C29_QuotaNeverExceeded ==
  \A u \in Users : CountActive(u) <= MAX_SANDBOXES_PER_USER


(***************************************************************************)
(* Concurrent transitions of one sandbox                                   *)
(***************************************************************************)
\* every call has returned and the sweeper is between two runs
Quiescent ==
  /\ \A c \in Callers : calls[c].pc \in {"idle", "done"}
  /\ sweeper.pc = "idle"

ContainerRunning(k) == k \in DOMAIN containers /\ containers[k].state = "running"

\* C30: once all start, stop and restart calls have returned, the row's status
\* is running exactly when its container is running
C30_RowAgreesWithRuntime ==
  Quiescent =>
    \A s \in DOMAIN sandboxes :
      sandboxes[s].status = "running" <=> ContainerRunning(sandboxes[s].container_id)


(***************************************************************************)
(* Healing a row whose container has stopped by itself                     *)
(***************************************************************************)
\* the row says running/healthy and its container does not run
Diverged(s) ==
  /\ s \in DOMAIN sandboxes
  /\ sandboxes[s].status = "running" /\ sandboxes[s].phase = "healthy"
  /\ ~ContainerRunning(sandboxes[s].container_id)

\* getSandbox returns: no row it returns is running over a container that is not
ReturnsReconciled ==
  [][\A c \in Callers :
       /\ calls[c].op = "get" /\ calls[c].pc = "load" /\ calls'[c].pc = "done"
       /\ calls'[c].res.kind = "ok" /\ calls'[c].res.status = "running"
       => ~Diverged(calls[c].sb)]_vars

\* C31: a running/healthy row whose container has exited or disappeared is
\* eventually no longer running/healthy (healed before it is returned again)
C31_DivergenceHealed == Diverged(1) ~> ~Diverged(1)


(***************************************************************************)
(* syncStatus                                                              *)
(***************************************************************************)
\* what the runtime's report asks of the row; for any other state, nothing
Reported(info) ==
  CASE info = "running" -> <<"running", "healthy">>
    [] info = "exited" -> <<"stopped", "stopped">>
    [] info \in {"dead", "none"} -> <<"error", "failed">>
    [] OTHER -> <<>>

\* C32: syncStatus writes running/healthy, stopped/stopped or error/failed as
\* the runtime reports running, exited, or dead or no container, on the row
\* as it loaded it; it writes nothing else, nothing for any other report,
\* nothing without row or container id, and nothing when the row already
\* agrees with the report
C32_SyncAlignsRow ==
  [][\A c \in Callers :
       /\ At(c, "sync", "load") /\ calls'[c].pc # "load" => sandboxes' = sandboxes
       /\ At(c, "sync", "load") /\ calls'[c].pc = "inspect"
            => calls[c].sb \in DOMAIN sandboxes /\ sandboxes[calls[c].sb].container_id # NULL
       /\ At(c, "sync", "inspect") /\ calls'[c].pc # "inspect" => sandboxes' = sandboxes
       /\ At(c, "sync", "update") /\ calls'[c].pc = "done"
            => LET sb == calls[c].sb
                   want == Reported(calls[c].info)
               IN IF sb \notin DOMAIN sandboxes THEN sandboxes' = sandboxes
                  ELSE /\ DOMAIN sandboxes' = DOMAIN sandboxes
                       /\ \A t \in DOMAIN sandboxes : t # sb => sandboxes'[t] = sandboxes[t]
                       /\ sandboxes'[sb] = [sandboxes[sb] EXCEPT
                                              !.status = sandboxes'[sb].status,
                                              !.phase = sandboxes'[sb].phase]
                       /\ StatusPhase(sandboxes[sb]) = calls[c].snap
                            => StatusPhase(sandboxes'[sb]) =
                                 IF want = <<>> THEN calls[c].snap ELSE want
                       /\ want # <<>> /\ StatusPhase(sandboxes[sb]) = want
                            => sandboxes' = sandboxes]_vars

\* the only call made so far is a syncStatus, which has found the container
\* of the provisioned sandbox exited and has written stopped/stopped
C32_Witness ==
  /\ hist.ncalls = 1
  /\ calls[1].op = "sync" /\ calls[1].pc = "done"
  /\ 1 \in DOMAIN sandboxes /\ StatusPhase(sandboxes[1]) = <<"stopped", "stopped">>
  /\ sandboxes[1].container_id \in DOMAIN containers
  /\ containers[sandboxes[1].container_id].state = "exited"


(***************************************************************************)
(* updateEnvironment: the fields the request leaves out                    *)
(***************************************************************************)
\* the columns the INSERT of updateEnvironment names, image apart
InsertColumns == {"cpu", "memory", "ports", "env", "secrets", "mounts"}

\* the columns the INSERT does not name
DefaultedColumns == {"dockerfile", "build_files", "command"}

\* in the step in which call c commits, the new current version has the
\* previous current version's value in every column of cols
Carried(c, cols) ==
  LET e == calls[c].env
      prev == versions[environments[e].current_version_id]
      new == versions'[environments'[e].current_version_id]
  IN \A f \in cols : new[f] = prev[f]

\* the image of the request, or the previous one when the request has none, and
\* every column the INSERT names carried over
NamedColumnsCarried ==
  [][\A c \in Callers : UpdateCommits(c) =>
       /\ Carried(c, InsertColumns)
       /\ calls[c].image = Nil => Carried(c, {"image"})]_vars

\* C33: every field of the new version that the request does not give equals
\* that field of the previous current version, and the secrets are the same
C33_UnspecifiedFieldsCarried ==
  [][\A c \in Callers : UpdateCommits(c) =>
       /\ Carried(c, InsertColumns \cup DefaultedColumns)
       /\ calls[c].image = Nil => Carried(c, {"image"})]_vars


(***************************************************************************)
(* The tail task of a closed log socket                                    *)
(***************************************************************************)
\* the tail tasks whose socket is closed and whose loop has not ended
ClosedTails ==
  {i \in 1..Len(collectors) :
     collectors[i].kind = "viewer" /\ ~collectors[i].open /\ ~collectors[i].ended}

\* the step of a tail whose socket is closed sends no frame and inserts no row
ClosedTailWritesNothing ==
  [][\A i \in ClosedTails : ViewerStep(i) =>
       /\ collectors'[i].sent = collectors[i].sent
       /\ collectors'[i].frames = collectors[i].frames
       /\ logs' = logs]_vars

\* C34: after a log socket closes, its tail task eventually ends, also when
\* the container writes nothing more
C34_ClosedTailEnds == (ClosedTails # {}) ~> (ClosedTails = {})


(***************************************************************************)
(* The limit of stored log rows per sandbox                                *)
(***************************************************************************)
\* a write of the collector leaves at most the limit, and the newest rows
CollectorKeepsLimit ==
  [][\A i \in LogTasks : CollectorStepCapped(i) =>
       \A sb \in DOMAIN logs : logs'[sb] # logs[sb] =>
         /\ Len(logs'[sb]) <= SmallLogLimit
         /\ \A j \in 1..Len(logs[sb]), m \in 1..Len(logs'[sb]) :
              logs[sb][j].timestamp <= logs'[sb][m].timestamp
                \/ \E n \in 1..Len(logs'[sb]) : logs'[sb][n] = logs[sb][j]]_vars

\* C35: after every log write, of the collector or of a socket's tail, a
\* sandbox has at most the limit of stored rows
C35_LogRowsCapped ==
  [][\A sb \in DOMAIN logs :
       logs'[sb] # logs[sb] => Len(logs'[sb]) <= SmallLogLimit]_vars


(***************************************************************************)
(* The version a sandbox is created from                                   *)
(***************************************************************************)
\* version v is a version of environment e
IsVersionOf(v, e) == v \in DOMAIN versions /\ versions[v].environment_id = e

\* C36: the version of every sandbox row, and the version every provisioner
\* was started with, is a version of the sandbox's own environment
C36_VersionOfOwnEnvironment ==
  \A s \in DOMAIN sandboxes :
    /\ IsVersionOf(sandboxes[s].environment_version_id, sandboxes[s].environment_id)
    /\ s \in DOMAIN prov => IsVersionOf(prov[s].vid, sandboxes[s].environment_id)

\* a createSandbox call that names a version of another environment does not
\* return a sandbox
ForeignVersionRefused ==
  \A c \in Callers :
    /\ calls[c].op = "create" /\ calls[c].pc = "done"
    /\ calls[c].ver # NULL /\ ~IsVersionOf(calls[c].ver, calls[c].env)
    => calls[c].res.kind \in {"NotFound", "Error", "QuotaExceeded"}


(***************************************************************************)
(* Secrets under concurrent writers of one environment                     *)
(***************************************************************************)
\* the keys of the secrets of environment e's current version
CurrentSecretKeys(e) ==
  IF e \in DOMAIN environments /\ environments[e].current_version_id \in DOMAIN versions
  THEN DOMAIN versions[environments[e].current_version_id].secrets
  ELSE {}

\* the step in which call c's deleteSecret of key k commits
DeleteCommits(c, k) ==
  At(c, "deleteSecret", "commit") /\ calls[c].key = k /\ calls'[c].pc = "done"

\* C37: when setSecret(env, k, v) commits, the current version of env has key
\* k, and from then on every step of every call keeps k in the current version,
\* but the commit of a deleteSecret of k and the deletion of the environment
C37_NoSecretLost ==
  [][/\ \A c \in Callers :
          At(c, "setSecret", "commit") /\ calls'[c].pc = "done"
            => calls[c].key \in CurrentSecretKeys(calls[c].env)'
     /\ \A k \in SecretKeys :
          k \in CurrentSecretKeys(1) /\ 1 \in DOMAIN environments'
            => \/ k \in CurrentSecretKeys(1)'
               \/ \E c \in Callers : DeleteCommits(c, k)]_vars

\* a setSecret of K2 and an updateEnvironment have both returned, and the
\* version the update made current has K2
C37_Witness ==
  /\ \E c, d \in Callers :
       /\ calls[c].op = "setSecret" /\ calls[c].pc = "done" /\ calls[c].res.kind = "secret"
       /\ calls[c].res.body.key = "K2"
       /\ calls[d].op = "update" /\ calls[d].pc = "done" /\ calls[d].res.kind = "put"
  /\ 1 \in DOMAIN environments /\ environments[1].current_version_id # 1
  /\ "K2" \in CurrentSecretKeys(1)


(***************************************************************************)
(* A created sandbox leaves pending                                        *)
(***************************************************************************)
Pending(s) == s \in DOMAIN sandboxes /\ sandboxes[s].status = "pending"

\* C38: the created sandbox, pending at first, eventually is not pending (it
\* has another status or is deleted), and no sandbox becomes pending again
C38_LeavesPending ==
  /\ Pending(1) ~> ~Pending(1)
  /\ [][\A s \in SandboxIds : ~Pending(s) => ~Pending(s)']_vars

\* the provisioner of sandbox 1 has ended, a stopSandbox call of A has returned
\* and the row is no longer pending
C38_Witness ==
  /\ 1 \in DOMAIN prov /\ prov[1].pc = "done"
  /\ 1 \in DOMAIN sandboxes /\ sandboxes[1].status \in {"running", "error", "expired"}
  /\ \E c \in Callers : calls[c].op = "stop" /\ calls[c].pc = "done"


(***************************************************************************)
(* The ports replicateSandbox assigns                                      *)
(***************************************************************************)
\* the step in which call c's replicateSandbox has probed its ports
Probes(c) == calls[c].op = "replicate" /\ calls[c].pc = "probe" /\ calls'[c].pc # "probe"

DistinctHosts(ports) ==
  \A i, j \in 1..Len(ports) : i # j => ports[i].host # ports[j].host

\* the mappings keep the container ports, and each host port is above the
\* original's and free when it is probed; without a free port the call fails
ProbedPortsFree ==
  [][\A c \in Callers : Probes(c) =>
       LET orig == calls[c].ports
           new == calls'[c].ports
       IN IF calls'[c].pc = "done"
          THEN /\ calls'[c].res.kind = "Error" /\ sandboxes' = sandboxes
               /\ \E i \in 1..Len(orig) :
                    \A q \in (orig[i].host + 1)..(orig[i].host + maxAttempts) :
                      q > MaxPort \/ q \in BusyPorts
          ELSE /\ Len(new) = Len(orig)
               /\ \A i \in 1..Len(orig) :
                    /\ new[i].container = orig[i].container
                    /\ new[i].host > orig[i].host
                    /\ new[i].host \notin BusyPorts]_vars

\* C39: the ports replicateSandbox assigns to the replica of an original with
\* pairwise distinct host ports are pairwise distinct
C39_ReplicaPortsDistinct ==
  [][\A c \in Callers :
       Probes(c) /\ calls'[c].pc # "done" /\ DistinctHosts(calls[c].ports)
         => DistinctHosts(calls'[c].ports)]_vars


(***************************************************************************)
(* The log collector of a running sandbox                                  *)
(***************************************************************************)
\* the collectLogs tasks of sandbox s
CollectorsOf(s) ==
  {i \in 1..Len(collectors) : collectors[i].kind = "collector" /\ collectors[i].sb = s}

\* C40: a sandbox that is running/healthy while no call is in flight has
\* exactly one log collector
C40_OneCollectorWhenRunning ==
  Quiescent =>
    \A s \in DOMAIN sandboxes :
      sandboxes[s].status = "running" /\ sandboxes[s].phase = "healthy"
        => Cardinality(CollectorsOf(s)) = 1

====
